---- MODULE Spec2Model ----
(***************************************************************************)
(* The V2 -> V3 project migration of fx-core                               *)
(* (packages/fx-core/src/core/middleware/projectMigratorV3.ts): the        *)
(* middleware ProjectMigratorMWV3, wrapRunMigration with its rollback, and *)
(* the six sub-migrations, run over a small project tree.                  *)
(*                                                                         *)
(* The project tree is a function from relative paths to contents.  The    *)
(* ledger operations of MigrationContext (utils/migrationContext.ts) are   *)
(* those of the specification, section 4.2.                                *)
(***************************************************************************)
EXTENDS Integers, Sequences, FiniteSets, TLC

(***************************************************************************)
(* Bounds of the model.                                                    *)
(***************************************************************************)
\* how many times the middleware is invoked on the same project
MaxInvocations == 2
\* the ordinal of the ledger operation of a step on which an I/O failure is injected
MaxFaultPoint == 5
\* how many paths may fail to be cleaned or restored in one rollback operation
MaxRollbackFailures == 1

(***************************************************************************)
(* Program constants.                                                      *)
(***************************************************************************)
MigrationVersion == "2.1.0"
TargetVersion == "3.0.0"
upgradeButton == "Upgrade"

V2TeamsfxFolder == <<".fx">>
SettingsFolderName == <<"teamsfx">>
SettingsFilePath == <<"teamsfx", "settings.json">>
AppYmlPath == <<"teamsfx", "app.yml">>
EnvFilePath == <<"teamsfx", ".env.dev">>
OldProjectSettingsPath == <<".fx", "configs", "projectSettings.json">>
OldStatesFolder == <<".fx", "states">>
OldStateFilePath == <<".fx", "states", "state.dev.json">>
OldAppPackageFolderPath == <<"templates", "appPackage">>
OldManifestPath == <<"templates", "appPackage", "manifest.template.json">>
OldAadManifestPath == <<"templates", "appPackage", "aad.template.json">>
OldResourceFolderPath == <<"templates", "appPackage", "resources">>
provisionBicepPath == <<"templates", "azure", "provision.bicep">>
AppPackageFolderName == <<"appPackage">>
ManifestPath == <<"appPackage", "manifest.template.json">>
ResourceFolderPath == <<"appPackage", "resources">>
AadManifestPath == <<"aad.manifest.template.json">>
launchJsonPath == <<".vscode", "launch.json">>

(***************************************************************************)
(* The project tree.                                                       *)
(***************************************************************************)
Paths ==
  { V2TeamsfxFolder, <<".fx", "configs">>, OldProjectSettingsPath,
    OldStatesFolder, OldStateFilePath,
    SettingsFolderName, SettingsFilePath, AppYmlPath, EnvFilePath,
    <<"templates">>, OldAppPackageFolderPath, OldManifestPath,
    OldAadManifestPath, OldResourceFolderPath,
    <<"templates", "azure">>, provisionBicepPath,
    AppPackageFolderName, ManifestPath, ResourceFolderPath,
    AadManifestPath, <<".vscode">>, launchJsonPath }

Absent == "absent"
Dir == "dir"
\* contents of files: what the user had, and what each step writes
Orig == "orig"
Malformed == "malformed"
SettingsV3Content == "{version:3.0.0,trackingId:projectId}"
AppYmlContent == "app.yml(settings,bicep)"
ManifestV3Content == "replacePlaceholdersForV3(manifest,bicep)"
AadManifestV3Content == "replacePlaceholdersForV3(aad,bicep)"
EmptyContent == ""
EnvContent == "jsonObjectNamesConvertV3(state)"
LaunchV3Content == "launch.json(dev:teamsAppId)"
Contents ==
  { Dir, Orig, Malformed, SettingsV3Content, AppYmlContent, ManifestV3Content,
    AadManifestV3Content, EmptyContent, EnvContent, LaunchV3Content }

Trees == [Paths -> Contents \cup {Absent}]
EmptyTree == [p \in Paths |-> Absent]

IsPrefix(p, q) == Len(p) <= Len(q) /\ SubSeq(q, 1, Len(p)) = p
Exists(t, p) == t[p] # Absent
Ancestors(p) == { SubSeq(p, 1, n) : n \in 1..(Len(p) - 1) }
ParentExists(t, p) == \A a \in Ancestors(p) : Exists(t, a)
\* fs.remove: the path and everything under it; an absent path is no error
RemoveTree(t, p) == [q \in Paths |-> IF IsPrefix(p, q) THEN Absent ELSE t[q]]
\* fs.ensureDir / mkdir -p
MkDirs(t, p) == [q \in Paths |-> IF IsPrefix(q, p) /\ t[q] = Absent THEN Dir ELSE t[q]]
\* fs.copy of the file or folder src of tree s onto dst of tree t
CopyTree(s, src, t, dst) ==
  [q \in Paths |->
     IF IsPrefix(dst, q)
       THEN LET from == src \o SubSeq(q, Len(dst) + 1, Len(q))
            IN  IF from \in Paths /\ Exists(s, from) THEN s[from] ELSE t[q]
       ELSE t[q]]
\* the subtree at p of tree t replaced by the subtree at p of tree s
ReplaceTree(s, t, p) == [q \in Paths |-> IF IsPrefix(p, q) THEN s[q] ELSE t[q]]
\* a tree is well formed when every existing path has its folders
WellFormed(t) == \A p \in Paths : Exists(t, p) => ParentExists(t, p)

(***************************************************************************)
(* Errors.  UserError and SystemError are the classified errors (FxError). *)
(***************************************************************************)
NoError == [class |-> "none", name |-> "", message |-> ""]
\* ReadFileError(e): a SystemError named ReadFileError
ReadFileError(msg) == [class |-> "SystemError", name |-> "ReadFileError", message |-> msg]
\* the FxError of loadProjectSettingsByProjectPathV2
LoaderError == [class |-> "UserError", name |-> "LoadProjectSettingsError",
                message |-> "legacy project settings cannot be loaded"]
\* a rejected fs call: a plain Error
IOError(msg) == [class |-> "Error", name |-> "Error", message |-> msg]
\* a thrown value that is no Error object
NonError(msg) == [class |-> "NonError", name |-> "", message |-> msg]
\* what an injected failure of a step throws
InjectedErrors ==
  { IOError("EIO"), NonError("thrown value") }
IsFxError(e) == e.class \in {"UserError", "SystemError"}

(***************************************************************************)
(* MigrationContext: the backup/rollback ledger.  c is a record            *)
(*   fs            the live project tree                                   *)
(*   store         the private backup area, keyed by relative path         *)
(*   backupPaths   every path snapshotted                                  *)
(*   modifiedPaths every path touched                                      *)
(***************************************************************************)
NewContext(t) ==
  [fs |-> t, store |-> EmptyTree, backupPaths |-> {}, modifiedPaths |-> {}]

\* backup(relativePath): copies an existing path into the backup area and
\* records it; the returned boolean is Exists(c.fs, p)
backup(c, p) ==
  IF Exists(c.fs, p)
    THEN [c EXCEPT !.store = ReplaceTree(c.fs, c.store, p),
                   !.backupPaths = @ \cup {p}]
    ELSE c

\* the record of the target in modifiedPaths, made before the write
addModifiedPath(c, p) == [c EXCEPT !.modifiedPaths = @ \cup {p}]

fsEnsureDir(c, p) == [addModifiedPath(c, p) EXCEPT !.fs = MkDirs(@, p)]

fsWriteFile(c, p, data) == [addModifiedPath(c, p) EXCEPT !.fs = [@ EXCEPT ![p] = data]]

\* createFile: an empty file unless the path exists already
fsCreateFile(c, p) ==
  [addModifiedPath(c, p) EXCEPT
     !.fs = IF Exists(@, p) THEN @
            ELSE [MkDirs(@, SubSeq(p, 1, Len(p) - 1)) EXCEPT ![p] = EmptyContent]]

fsCopy(c, src, dst) ==
  [addModifiedPath(c, dst) EXCEPT
     !.fs = CopyTree(@, src, MkDirs(@, SubSeq(dst, 1, Len(dst) - 1)), dst)]

\* the paths cleanModifiedPaths deletes: modified and not snapshotted
PathsToClean(c) == c.modifiedPaths \ c.backupPaths

\* cleanModifiedPaths(): deletes every path of PathsToClean but those of
\* `failed`, whose deletion fails
cleanModifiedPaths(c, failed) ==
  [c EXCEPT !.fs = [q \in Paths |->
     IF \E p \in PathsToClean(c) \ failed : IsPrefix(p, q) THEN Absent ELSE @[q]]]

\* restoreBackup(): overwrites every path of backupPaths with its snapshot,
\* but those of `failed`, whose restoration fails
restoreBackup(c, failed) ==
  [c EXCEPT !.fs = [q \in Paths |->
     IF \E p \in c.backupPaths \ failed : IsPrefix(p, q) THEN c.store[q] ELSE @[q]]]

\* cleanTeamsfx(): removes the legacy folder when the migration created its
\* replacement (the settings folder is a modified path that exists) and the
\* legacy folder was staged (snapshotted)
cleanTeamsfx(c) ==
  IF /\ SettingsFolderName \in c.modifiedPaths
     /\ Exists(c.fs, SettingsFolderName)
     /\ V2TeamsfxFolder \in c.backupPaths
    THEN [c EXCEPT !.fs = RemoveTree(@, V2TeamsfxFolder)]
    ELSE c

(***************************************************************************)
(* The run of one sub-migration.  r is a record                            *)
(*   c    the MigrationContext                                             *)
(*   err  the error thrown so far, or NoError                              *)
(*   n    the ledger operations called so far                              *)
(*   f    the ordinal of the ledger operation that rejects (0: none)       *)
(*   inj  the error that operation rejects with                            *)
(* Once err is set the rest of the sub-migration is skipped.               *)
(***************************************************************************)
StartRun(c, f, inj) == [c |-> c, err |-> NoError, n |-> 0, f |-> f, inj |-> inj]

Throw(r, e) == IF r.err # NoError THEN r ELSE [r EXCEPT !.err = e]

\* an awaited ledger call: it leaves onOk, or rejects and leaves onFail
Await(r, onFail, onOk) ==
  IF r.err # NoError THEN r
  ELSE IF r.n + 1 = r.f
    THEN [r EXCEPT !.c = onFail, !.err = r.inj, !.n = @ + 1]
    ELSE [r EXCEPT !.c = onOk, !.n = @ + 1]

AwaitBackup(r, p) == Await(r, r.c, backup(r.c, p))
AwaitEnsureDir(r, p) == Await(r, addModifiedPath(r.c, p), fsEnsureDir(r.c, p))
AwaitCreateFile(r, p) == Await(r, addModifiedPath(r.c, p), fsCreateFile(r.c, p))
AwaitCopy(r, src, dst) == Await(r, addModifiedPath(r.c, dst), fsCopy(r.c, src, dst))
\* writeFile rejects with ENOENT when the folder of the file is missing
AwaitWriteFile(r, p, data) ==
  IF r.err = NoError /\ ~ParentExists(r.c.fs, p)
    THEN [r EXCEPT !.c = addModifiedPath(r.c, p), !.err = IOError("ENOENT"), !.n = @ + 1]
    ELSE Await(r, addModifiedPath(r.c, p), fsWriteFile(r.c, p, data))

(***************************************************************************)
(* The sub-migrations.                                                     *)
(***************************************************************************)
loadProjectSettings(r) ==
  IF r.c.fs[OldProjectSettingsPath] = Orig THEN r ELSE Throw(r, LoaderError)

preMigration(r) == AwaitBackup(r, V2TeamsfxFolder)

\* generateSettingsJson with the folder ensured before the settings are loaded
generateSettingsJsonEnsureFirst(r) ==
  LET r1 == AwaitEnsureDir(r, SettingsFolderName)
      r2 == loadProjectSettings(r1)
  IN  AwaitWriteFile(r2, SettingsFilePath, SettingsV3Content)

generateSettingsJson(r) ==
  LET r1 == loadProjectSettings(r)
      r2 == AwaitEnsureDir(r1, SettingsFolderName)
  IN  AwaitWriteFile(r2, SettingsFilePath, SettingsV3Content)

\* generateAppYml without the read of provision.bicep
generateAppYmlNoBicep(r) ==
  LET r2 == loadProjectSettings(r)
  IN  AwaitWriteFile(r2, AppYmlPath, AppYmlContent)

generateAppYml(r) ==
  LET r1 == IF Exists(r.c.fs, provisionBicepPath) THEN r ELSE Throw(r, IOError("ENOENT"))
      r2 == loadProjectSettings(r1)
  IN  AwaitWriteFile(r2, AppYmlPath, AppYmlContent)

\* replacePlaceholderForManifests with a missing application manifest skipped
replacePlaceholderManifestOptional(r) ==
  LET r1 == AwaitBackup(r, OldAppPackageFolderPath)
      r2 == IF ~Exists(r1.c.fs, OldAppPackageFolderPath)
              THEN Throw(r1, ReadFileError("templates/appPackage does not exist"))
              ELSE r1
      r3 == AwaitEnsureDir(r2, AppPackageFolderName)
      r4 == IF Exists(r3.c.fs, OldResourceFolderPath)
              THEN AwaitCopy(r3, OldResourceFolderPath, ResourceFolderPath)
              ELSE r3
      r5 == IF ~Exists(r4.c.fs, provisionBicepPath)
              THEN Throw(r4, ReadFileError("templates/azure/provision.bicep does not exist"))
              ELSE r4
      r6 == IF Exists(r5.c.fs, OldManifestPath)
              THEN AwaitWriteFile(r5, ManifestPath, ManifestV3Content)
              ELSE r5
  IN  IF Exists(r6.c.fs, OldAadManifestPath)
        THEN AwaitWriteFile(r6, AadManifestPath, AadManifestV3Content)
        ELSE r6

replacePlaceholderForManifests(r) ==
  LET r1 == AwaitBackup(r, OldAppPackageFolderPath)
      r2 == IF ~Exists(r1.c.fs, OldAppPackageFolderPath)
              THEN Throw(r1, ReadFileError("templates/appPackage does not exist"))
              ELSE r1
      r3 == AwaitEnsureDir(r2, AppPackageFolderName)
      r4 == IF Exists(r3.c.fs, OldResourceFolderPath)
              THEN AwaitCopy(r3, OldResourceFolderPath, ResourceFolderPath)
              ELSE r3
      r5 == IF ~Exists(r4.c.fs, provisionBicepPath)
              THEN Throw(r4, ReadFileError("templates/azure/provision.bicep does not exist"))
              ELSE r4
      r6 == IF Exists(r5.c.fs, OldManifestPath)
              THEN AwaitWriteFile(r5, ManifestPath, ManifestV3Content)
              ELSE Throw(r5, ReadFileError(
                     "templates/appPackage/manifest.template.json does not exist"))
  IN  IF Exists(r6.c.fs, OldAadManifestPath)
        THEN AwaitWriteFile(r6, AadManifestPath, AadManifestV3Content)
        ELSE r6

\* readBicepContent: reads templates/azure/provision.bicep
readBicepContent(r) ==
  IF Exists(r.c.fs, provisionBicepPath) THEN r ELSE Throw(r, IOError("ENOENT"))

\* statesMigration without the test that .fx/states exists
statesMigrationNoExistsTest(r) ==
  LET r1 == AwaitEnsureDir(r, SettingsFolderName)
      r2 == AwaitCreateFile(r1, EnvFilePath)
      r3 == readBicepContent(r2)
  IN  AwaitWriteFile(r3, EnvFilePath, EnvContent)

statesMigration(r) ==
  IF Exists(r.c.fs, OldStatesFolder) /\ Exists(r.c.fs, OldStateFilePath)
    THEN LET r1 == AwaitEnsureDir(r, SettingsFolderName)
             r2 == AwaitCreateFile(r1, EnvFilePath)
             r3 == readBicepContent(r2)
         IN  AwaitWriteFile(r3, EnvFilePath, EnvContent)
    ELSE r

\* updateLaunchJson with the write before the backup
updateLaunchJsonWriteFirst(r) ==
  IF Exists(r.c.fs, launchJsonPath)
    THEN LET r1 == AwaitWriteFile(r, launchJsonPath, LaunchV3Content)
         IN  AwaitBackup(r1, launchJsonPath)
    ELSE r

updateLaunchJson(r) ==
  IF Exists(r.c.fs, launchJsonPath)
    THEN LET r1 == AwaitBackup(r, launchJsonPath)
         IN  AwaitWriteFile(r1, launchJsonPath, LaunchV3Content)
    ELSE r

\* the list with generateAppYml and replacePlaceholderForManifests exchanged
subMigrationsSwapped ==
  << "preMigration", "generateSettingsJson", "replacePlaceholderForManifests",
     "generateAppYml", "statesMigration", "updateLaunchJson" >>

subMigrations ==
  << "preMigration", "generateSettingsJson", "generateAppYml",
     "replacePlaceholderForManifests", "statesMigration", "updateLaunchJson" >>

RunSubMigration(name, r) ==
  CASE name = "preMigration" -> preMigration(r)
    [] name = "generateSettingsJson" -> generateSettingsJson(r)
    [] name = "generateAppYml" -> generateAppYml(r)
    [] name = "replacePlaceholderForManifests" -> replacePlaceholderForManifests(r)
    [] name = "statesMigration" -> statesMigration(r)
    [] name = "updateLaunchJson" -> updateLaunchJson(r)

(***************************************************************************)
(* The version gate, the confirmation prompt and the error classification. *)
(***************************************************************************)
\* the version a project tree declares: 3.0.0 once the new settings document
\* exists, 2.1.0 for a legacy project, unrecognized otherwise
ProjectVersion(t) ==
  IF t[SettingsFilePath] = SettingsV3Content THEN TargetVersion
  ELSE IF Exists(t, OldProjectSettingsPath) THEN MigrationVersion
  ELSE "0.0.0"

\* getProjectVersion: "TODO: read the real version from project setting"
getProjectVersion(t) == "2.1.0"

checkVersionForMigration(t) == getProjectVersion(t) = MigrationVersion

\* the results TOOLS.ui.showMessage may give
PromptResults ==
  { [isOk |-> TRUE, value |-> upgradeButton],
    [isOk |-> TRUE, value |-> "Learn more"],
    [isOk |-> TRUE, value |-> "undefined"],
    [isOk |-> FALSE, value |-> "UserCancel"] }
NoPrompt == [isOk |-> FALSE, value |-> "not asked"]

\* the test of the answer without "answer != upgradeButton"
askUserConfirmAnyAnswer(res) ==
  LET answer == IF res.isOk THEN res.value ELSE "undefined"
  IN  ~(answer = "undefined")

askUserConfirm(res) ==
  LET answer == IF res.isOk THEN res.value ELSE "undefined"
  IN  ~(answer = "undefined" \/ answer # upgradeButton)

\* error = new Error(error.toString()) for a thrown value that is no Error
ToError(e) == IF e.class = "NonError" THEN IOError(e.message) ELSE e

\* the fxError wrapRunMigration reports to telemetry
ToFxError(e) ==
  IF IsFxError(e) THEN e
  ELSE [class |-> "SystemError", name |-> "unhandledError", message |-> ToError(e).message]

\* "throw error": what wrapRunMigration throws once the rollback is done
Rethrown(e) == ToError(e)

(***************************************************************************)
(* The state.                                                              *)
(***************************************************************************)
VARIABLES
  fs,             \* the project tree
  store,          \* MigrationContext: the backup area
  backupPaths,    \* MigrationContext.backupPaths
  modifiedPaths,  \* MigrationContext.modifiedPaths
  pc,             \* where the middleware is
  stepIdx,        \* migrate: the index of the next sub-migration
  error,          \* wrapRunMigration: the error the pipeline threw
  fxError,        \* wrapRunMigration: the error sent to telemetry
  thrown,         \* the error that reached the caller of the middleware
  result,         \* ctx.result
  nextCalls,      \* how often next() was called in this invocation
  contexts,       \* how many MigrationContexts this invocation created
  prompt,         \* the result of the confirmation prompt
  started,        \* the sub-migrations started in this invocation, in order
  resolved,       \* the sub-migrations that resolved in this invocation
  calls,          \* the rollback operations invoked in this invocation
  outcome,        \* how the last invocation ended
  preTree,        \* the project tree when the invocation began
  invocations,    \* the invocations so far
  phase,               \* "input" before a function is applied, "output" after
  oldProjectSettings,  \* generateSettingsJson: the loaded legacy settings
  settingsJson,        \* generateSettingsJson: the text written to settings.json
  fileNames,           \* statesMigration: the file names in .fx/states
  envFiles,            \* statesMigration: the files created in the settings folder
  launchJsonContent,   \* updateLaunchJson: the text read from launch.json
  launchJsonResult,    \* updateLaunchJson: the text written to launch.json
  label,               \* replaceInDependsOn: the label to replace
  replacements,        \* replaceInDependsOn: the labels that replace it
  tasks,               \* replaceInDependsOn: the tasks, edited in place
  tasksBefore,         \* replaceInDependsOn: the tasks before the call
  debugContext,        \* the DebugMigrationContext of the debug-task sub-pipeline
  debugInitial,        \* the DebugMigrationContext when the sub-pipeline began
  debugStep,           \* the position in the list of debug-task sub-migrations
  debugEnvironment,    \* process.env and the outcome of encrypt
  loopRule,            \* the sub-migration whose scan loop is followed
  loopContext,         \* the DebugMigrationContext the loop works on
  loopIndex,           \* the index of the loop, counted from 1
  loopState,           \* "running", "broken" by break, or "ended" by the loop test
  loopInitial,         \* the DebugMigrationContext the loop began with
  cwd,                 \* process.cwd(), one for the process
  scaffolding          \* the doScaffolding calls of the process

ledger == <<store, backupPaths, modifiedPaths>>
pipelineVars == <<fs, store, backupPaths, modifiedPaths, pc, stepIdx, error, fxError,
                  thrown, result, nextCalls, contexts, prompt, started, resolved,
                  calls, outcome, preTree, invocations>>
settingsVars == <<oldProjectSettings, settingsJson>>
statesVars == <<fileNames, envFiles>>
launchVars == <<launchJsonContent, launchJsonResult>>
dependsOnVars == <<label, replacements, tasks, tasksBefore>>
debugVars == <<debugContext, debugInitial, debugStep, debugEnvironment>>
loopVars == <<loopRule, loopContext, loopIndex, loopState, loopInitial>>
scaffoldVars == <<cwd, scaffolding>>
functionVars == <<phase, settingsVars, statesVars, launchVars, dependsOnVars,
                  debugVars, loopVars, scaffoldVars>>
vars == <<pipelineVars, functionVars>>

\* the values of the variables a specification does not use
SettingsIdle == oldProjectSettings = << >> /\ settingsJson = << >>
StatesIdle == fileNames = {} /\ envFiles = {}
LaunchIdle == launchJsonContent = << >> /\ launchJsonResult = << >>
DependsOnIdle ==
  label = "" /\ replacements = << >> /\ tasks = << >> /\ tasksBefore = << >>
DebugIdle ==
  /\ debugContext = << >> /\ debugInitial = << >>
  /\ debugStep = 0 /\ debugEnvironment = << >>
LoopIdle ==
  /\ loopRule = "" /\ loopContext = << >> /\ loopIndex = 0
  /\ loopState = "" /\ loopInitial = << >>
ScaffoldIdle == cwd = << >> /\ scaffolding = << >>

Ctx == [fs |-> fs, store |-> store, backupPaths |-> backupPaths,
        modifiedPaths |-> modifiedPaths]

\* the files and folders a project may hold before the first invocation
InitialLeaves ==
  { OldProjectSettingsPath, OldStateFilePath,
    OldManifestPath, OldAadManifestPath, OldResourceFolderPath,
    provisionBicepPath, launchJsonPath,
    SettingsFilePath, ManifestPath }
IsFolder(p) == p = OldResourceFolderPath
\* the tree that holds the leaves S and the folders above them
TreeOf(S, settings) ==
  [p \in Paths |->
     IF p \in S
       THEN IF IsFolder(p) THEN Dir
            ELSE IF p = OldProjectSettingsPath THEN settings
            ELSE IF p = SettingsFilePath THEN SettingsV3Content
            ELSE Orig
     ELSE IF \E q \in S : IsPrefix(p, q) THEN Dir
     ELSE Absent]
InitialTrees ==
  { TreeOf(S, Orig) : S \in SUBSET InitialLeaves } \cup
  { TreeOf(S \cup {OldProjectSettingsPath}, Malformed) : S \in SUBSET InitialLeaves }

\* the pipeline before the first invocation, on the tree fs
PipelineStart ==
  /\ store = EmptyTree
  /\ backupPaths = {}
  /\ modifiedPaths = {}
  /\ pc = "idle"
  /\ stepIdx = 1
  /\ error = NoError
  /\ fxError = NoError
  /\ thrown = NoError
  /\ result = "none"
  /\ nextCalls = 0
  /\ contexts = 0
  /\ prompt = NoPrompt
  /\ started = << >>
  /\ resolved = << >>
  /\ calls = << >>
  /\ outcome = "none"
  /\ preTree = fs
  /\ invocations = 0

\* no pipeline: the specifications of single functions
PipelineIdle == fs = EmptyTree /\ PipelineStart

Init ==
  /\ fs \in InitialTrees
  /\ PipelineStart
  /\ phase = "none"
  /\ SettingsIdle /\ StatesIdle /\ LaunchIdle /\ DependsOnIdle /\ DebugIdle /\ LoopIdle /\ ScaffoldIdle

(***************************************************************************)
(* ProjectMigratorMWV3.                                                    *)
(***************************************************************************)
\* the middleware is called: the version gate, checkMethod and checkUserTasks
\* (both of projectMigrator.ts, given here by the caller's ctx)
Invoke ==
  /\ pc = "idle"
  /\ invocations < MaxInvocations
  /\ invocations' = invocations + 1
  /\ preTree' = fs
  /\ store' = EmptyTree /\ backupPaths' = {} /\ modifiedPaths' = {}
  /\ stepIdx' = 1
  /\ error' = NoError /\ fxError' = NoError /\ thrown' = NoError
  /\ contexts' = 0 /\ prompt' = NoPrompt
  /\ started' = << >> /\ resolved' = << >> /\ calls' = << >>
  /\ \E checkMethod \in BOOLEAN, checkUserTasks \in BOOLEAN :
       IF checkVersionForMigration(fs) /\ checkMethod
         THEN IF ~checkUserTasks
                THEN /\ result' = "ok"
                     /\ nextCalls' = 0
                     /\ outcome' = "skipped"
                     /\ pc' = "idle"
                ELSE /\ result' = "none"
                     /\ nextCalls' = 0
                     /\ outcome' = "none"
                     /\ pc' = "confirm"
         ELSE /\ result' = "none"
              /\ nextCalls' = 1
              /\ outcome' = "next"
              /\ pc' = "idle"
  /\ UNCHANGED fs
  /\ UNCHANGED functionVars

\* askUserConfirm answers; on acceptance MigrationContext.create and the
\* start of wrapRunMigration
AskUserConfirm ==
  /\ pc = "confirm"
  /\ \E res \in PromptResults :
       /\ prompt' = res
       /\ IF askUserConfirm(res)
            THEN /\ contexts' = contexts + 1
                 /\ pc' = "migrate"
                 /\ UNCHANGED <<result, outcome>>
            ELSE /\ result' = "UpgradeCanceled"
                 /\ outcome' = "cancelled"
                 /\ pc' = "idle"
                 /\ UNCHANGED contexts
  /\ UNCHANGED <<fs, ledger, stepIdx, error, fxError, thrown, nextCalls, started,
                 resolved, calls, preTree, invocations>>
  /\ UNCHANGED functionVars

\* migrate: one iteration of the loop over subMigrations, and the catch
\* clause of wrapRunMigration up to the call of rollbackMigration
SubMigrationStep(name) ==
  /\ pc = "migrate"
  /\ stepIdx <= Len(subMigrations)
  /\ subMigrations[stepIdx] = name
  /\ \E f \in 0..MaxFaultPoint, inj \in InjectedErrors :
       LET r == RunSubMigration(name, StartRun(Ctx, f, inj))
       IN  /\ fs' = r.c.fs
           /\ store' = r.c.store
           /\ backupPaths' = r.c.backupPaths
           /\ modifiedPaths' = r.c.modifiedPaths
           /\ started' = Append(started, name)
           /\ IF r.err = NoError
                THEN /\ resolved' = Append(resolved, name)
                     /\ stepIdx' = stepIdx + 1
                     /\ pc' = "migrate"
                     /\ UNCHANGED <<error, fxError>>
                ELSE /\ error' = r.err
                     /\ fxError' = ToFxError(r.err)
                     /\ pc' = "cleanModifiedPaths"
                     /\ UNCHANGED <<resolved, stepIdx>>
  /\ UNCHANGED <<thrown, result, nextCalls, contexts, prompt, calls, outcome,
                 preTree, invocations>>
  /\ UNCHANGED functionVars

PreMigration == SubMigrationStep("preMigration")
GenerateSettingsJson == SubMigrationStep("generateSettingsJson")
GenerateAppYml == SubMigrationStep("generateAppYml")
ReplacePlaceholderForManifests == SubMigrationStep("replacePlaceholderForManifests")
StatesMigration == SubMigrationStep("statesMigration")
UpdateLaunchJson == SubMigrationStep("updateLaunchJson")

\* the pipeline resolved: showSummaryReport, telemetry, ctx.result = ok
Commit ==
  /\ pc = "migrate"
  /\ stepIdx > Len(subMigrations)
  /\ result' = "ok"
  /\ outcome' = "migrated"
  /\ pc' = "idle"
  /\ UNCHANGED <<fs, ledger, stepIdx, error, fxError, thrown, nextCalls, contexts,
                 prompt, started, resolved, calls, preTree, invocations>>
  /\ UNCHANGED functionVars

\* the sets of paths on which one rollback operation may fail
FailureSets(S) == { F \in SUBSET S : Cardinality(F) <= MaxRollbackFailures }

\* a rollback operation rejected: the rejection leaves rollbackMigration and
\* the catch clause of wrapRunMigration
RollbackRejects ==
  /\ thrown' = IOError("rollback")
  /\ outcome' = "thrown"
  /\ pc' = "idle"

\* rollbackMigration: await context.cleanModifiedPaths()
CleanModifiedPaths ==
  /\ pc = "cleanModifiedPaths"
  /\ calls' = Append(calls, "cleanModifiedPaths")
  /\ \E failed \in FailureSets(PathsToClean(Ctx)) :
       /\ fs' = cleanModifiedPaths(Ctx, failed).fs
       /\ IF failed = {}
            THEN pc' = "restoreBackup" /\ UNCHANGED <<thrown, outcome>>
            ELSE RollbackRejects
  /\ UNCHANGED <<ledger, stepIdx, error, fxError, result, nextCalls, contexts,
                 prompt, started, resolved, preTree, invocations>>
  /\ UNCHANGED functionVars

\* rollbackMigration: await context.restoreBackup()
RestoreBackup ==
  /\ pc = "restoreBackup"
  /\ calls' = Append(calls, "restoreBackup")
  /\ \E failed \in FailureSets(backupPaths) :
       /\ fs' = restoreBackup(Ctx, failed).fs
       /\ IF failed = {}
            THEN pc' = "cleanTeamsfx" /\ UNCHANGED <<thrown, outcome>>
            ELSE RollbackRejects
  /\ UNCHANGED <<ledger, stepIdx, error, fxError, result, nextCalls, contexts,
                 prompt, started, resolved, preTree, invocations>>
  /\ UNCHANGED functionVars

\* rollbackMigration: await context.cleanTeamsfx(); then "throw error"
CleanTeamsfx ==
  /\ pc = "cleanTeamsfx"
  /\ calls' = Append(calls, "cleanTeamsfx")
  /\ \E rejects \in BOOLEAN :
       IF rejects
         THEN UNCHANGED fs /\ RollbackRejects
         ELSE /\ fs' = cleanTeamsfx(Ctx).fs
              /\ thrown' = Rethrown(error)
              /\ outcome' = "thrown"
              /\ pc' = "idle"
  /\ UNCHANGED <<ledger, stepIdx, error, fxError, result, nextCalls, contexts,
                 prompt, started, resolved, preTree, invocations>>
  /\ UNCHANGED functionVars

Next ==
  \/ Invoke
  \/ AskUserConfirm
  \/ PreMigration
  \/ GenerateSettingsJson
  \/ GenerateAppYml
  \/ ReplacePlaceholderForManifests
  \/ StatesMigration
  \/ UpdateLaunchJson
  \/ Commit
  \/ CleanModifiedPaths
  \/ RestoreBackup
  \/ CleanTeamsfx

Spec == Init /\ [][Next]_vars

TypeOK ==
  /\ fs \in Trees
  /\ WellFormed(fs)
  /\ backupPaths \subseteq Paths
  /\ modifiedPaths \subseteq Paths
  /\ pc \in {"idle", "confirm", "migrate", "cleanModifiedPaths", "restoreBackup",
             "cleanTeamsfx"}
  /\ stepIdx \in 1..(Len(subMigrations) + 1)
  /\ invocations \in 0..MaxInvocations

(***************************************************************************)
(* Properties.                                                             *)
(***************************************************************************)
Range(q) == { q[i] : i \in 1..Len(q) }
IsPrefixOf(a, b) == Len(a) <= Len(b) /\ SubSeq(b, 1, Len(a)) = a
\* the invocation has ended
Returned == pc = "idle" /\ outcome # "none"
\* the pipeline threw, the three rollback operations resolved and
\* wrapRunMigration threw to its caller
RollbackDone == Returned /\ outcome = "thrown" /\ thrown # IOError("rollback")
\* the pipeline is running or has just thrown; no rollback has begun
InPipeline == pc \in {"migrate", "cleanModifiedPaths"}
\* the paths the pipeline creates at the project root are not in the tree
FreshTargets(t) ==
  /\ ~Exists(t, SettingsFolderName)
  /\ ~Exists(t, AppPackageFolderName)
  /\ ~Exists(t, AadManifestPath)

\* C1: atomicity.  Whenever a step of the pipeline has thrown and the
\* rollback has completed, the project tree is identical to the tree before
\* the migration started, for every initial tree.
C1_Atomicity == RollbackDone => fs = preTree

\* Atomicity restricted to fresh targets: the rollback restores the tree
\* when none of the paths the pipeline writes at the project root existed.
AtomicityOnFreshTargets == (RollbackDone /\ FreshTargets(preTree)) => fs = preTree

\* C2: snapshot before mutation.  While the pipeline runs, every path that
\* existed before the migration and whose content has changed is in
\* backupPaths, or is inside a folder that is in backupPaths.
C2_SnapshotBeforeMutation ==
  InPipeline =>
    \A p \in Paths :
      (Exists(preTree, p) /\ fs[p] # preTree[p]) =>
        \E b \in backupPaths : IsPrefix(b, p)

\* C3: when the pipeline threw, by the time the error has reached the caller
\* cleanModifiedPaths, restoreBackup and cleanTeamsfx have each been invoked
\* exactly once, in that order; when the pipeline resolved none was invoked.
C3_RollbackInvokedInOrder ==
  /\ (Returned /\ outcome = "thrown") =>
        calls = << "cleanModifiedPaths", "restoreBackup", "cleanTeamsfx" >>
  /\ (Returned /\ outcome = "migrated") => calls = << >>

\* C4: the error wrapRunMigration throws after the rollback is the original
\* error when that is a UserError or a SystemError, and otherwise a
\* SystemError named unhandledError that carries the original message.
C4_RethrowsClassifiedError ==
  RollbackDone =>
    thrown = IF IsFxError(error) THEN error
             ELSE [class |-> "SystemError", name |-> "unhandledError",
                   message |-> error.message]

\* C5: rollback is best-effort.  Once the rollback has begun, restoreBackup
\* and cleanTeamsfx are attempted even when cleanModifiedPaths failed, and
\* cleanTeamsfx is attempted even when restoreBackup failed.
C5_RollbackBestEffort ==
  (Returned /\ "cleanModifiedPaths" \in Range(calls)) =>
    {"restoreBackup", "cleanTeamsfx"} \subseteq Range(calls)

\* C6: migrate runs the six sub-migrations in the fixed order on one
\* MigrationContext; a step starts only when all the steps before it have
\* resolved, and once a step has thrown no later step is started.
C6_FixedOrder ==
  LET order == << "preMigration", "generateSettingsJson", "generateAppYml",
                  "replacePlaceholderForManifests", "statesMigration",
                  "updateLaunchJson" >>
  IN  /\ IsPrefixOf(started, order)
      /\ IsPrefixOf(resolved, started)
      /\ Len(started) <= Len(resolved) + 1
      /\ (Len(started) = Len(resolved) + 1) <=> (error # NoError)
      /\ (Returned /\ outcome = "migrated") => resolved = order
      /\ contexts <= 1
      /\ started # << >> => contexts = 1

\* C6 witness: an invocation in which all six sub-migrations resolved.
C6_Witness ==
  /\ Returned /\ outcome = "migrated"
  /\ Len(resolved) = 6

\* C6, the other case: the fourth step threw after three had resolved.
C6_ThrowSeen ==
  /\ Len(started) = 4 /\ Len(resolved) = 3 /\ error # NoError /\ Returned

\* C7: the version gate.  A MigrationContext is created only for a project
\* whose version is 2.1.0; for a project of any other version (already
\* migrated or unrecognized) the middleware calls next() exactly once,
\* creates no context, runs no sub-migration and raises no error.
C7_VersionGate ==
  /\ contexts > 0 => ProjectVersion(preTree) = MigrationVersion
  /\ (Returned /\ ProjectVersion(preTree) # MigrationVersion) =>
        /\ nextCalls = 1
        /\ contexts = 0
        /\ started = << >>
        /\ thrown = NoError

\* C8: idempotent no-op.  An invocation on a project whose version is
\* already 3.0.0 backs up nothing, writes nothing and deletes nothing.
C8_NoopOnTargetVersion ==
  (invocations > 0 /\ ProjectVersion(preTree) = TargetVersion) =>
    /\ fs = preTree
    /\ backupPaths = {}
    /\ modifiedPaths = {}

\* C9: user cancel.  When the prompt was answered with anything but the
\* upgrade button, or failed, the invocation has ended with ctx.result the
\* UpgradeCanceled error, no MigrationContext, no sub-migration, no change
\* of the tree, no call of next() and no rollback.
C9_UserCancel ==
  (prompt # NoPrompt /\ ~(prompt.isOk /\ prompt.value = upgradeButton)) =>
    /\ Returned
    /\ result = "UpgradeCanceled"
    /\ contexts = 0
    /\ started = << >>
    /\ fs = preTree
    /\ backupPaths = {} /\ modifiedPaths = {}
    /\ nextCalls = 0
    /\ calls = << >>
    /\ thrown = NoError

\* C9 witness: the prompt was answered with another button and the
\* invocation ended cancelled.
C9_Witness ==
  /\ prompt = [isOk |-> TRUE, value |-> "Learn more"]
  /\ outcome = "cancelled"
  /\ Returned

\* C10: commit on success.  When wrapRunMigration has completed without
\* error the legacy folder is no longer in the project and the backup ledger
\* is empty.
C10_CommitOnSuccess ==
  (Returned /\ outcome = "migrated") =>
    /\ ~Exists(fs, V2TeamsfxFolder)
    /\ backupPaths = {}
    /\ store = EmptyTree

\* C12: when the legacy project settings cannot be loaded,
\* generateSettingsJson throws the loader's error, no later step is started,
\* no path has been recorded in modifiedPaths and nothing has been written;
\* the loader's error is what the caller gets after the rollback.
C12_SettingsNotLoadable ==
  (Len(started) >= 2 /\ preTree[OldProjectSettingsPath] # Orig) =>
    /\ Len(started) = 2
    /\ error = LoaderError
    /\ pc # "migrate"
    /\ modifiedPaths = {}
    /\ fs = preTree
    /\ RollbackDone => thrown = LoaderError

\* C12 witness: generateSettingsJson threw on a malformed settings file and
\* the rollback is done.
C12_Witness ==
  /\ preTree[OldProjectSettingsPath] = Malformed
  /\ started = << "preMigration", "generateSettingsJson" >>
  /\ error = LoaderError
  /\ RollbackDone

\* C13: when templates/azure/provision.bicep is missing, generateAppYml
\* throws, app.yml is not written, no later step is started, and once the
\* rollback is done the new settings folder and settings file are gone.
C13_BicepRequired ==
  (Len(started) >= 3 /\ ~Exists(preTree, provisionBicepPath)) =>
    /\ Len(started) = 3
    /\ error = IOError("ENOENT")
    /\ pc # "migrate"
    /\ AppYmlPath \notin modifiedPaths
    /\ InPipeline => fs[AppYmlPath] = preTree[AppYmlPath]
    /\ RollbackDone =>
         /\ ~Exists(fs, SettingsFolderName)
         /\ ~Exists(fs, SettingsFilePath)

\* C13 witness: generateAppYml threw for a missing provision.bicep after
\* generateSettingsJson had written the settings, and the rollback is done.
C13_Witness ==
  /\ ~Exists(preTree, provisionBicepPath)
  /\ started = << "preMigration", "generateSettingsJson", "generateAppYml" >>
  /\ SettingsFilePath \in modifiedPaths
  /\ RollbackDone

\* the legacy files replacePlaceholderForManifests reads before the manifests
ManifestInputsPresent(t) ==
  Exists(t, OldAppPackageFolderPath) /\ Exists(t, provisionBicepPath)

\* C14: in replacePlaceholderForManifests a missing application manifest
\* makes the step throw a ReadFileError (unless a ledger call rejected
\* first) and nothing is written to appPackage/manifest.template.json; a
\* missing AAD manifest throws nothing and aad.manifest.template.json is not
\* written.
C14_ManifestRequiredAadOptional ==
  /\ (Len(started) >= 4 /\ ~Exists(preTree, OldManifestPath)) =>
       /\ Len(started) = 4
       /\ error.name = "ReadFileError" \/ error \in InjectedErrors
       /\ ManifestPath \notin modifiedPaths
  /\ (Len(started) >= 4 /\ ~Exists(preTree, OldAadManifestPath)) =>
       /\ AadManifestPath \notin modifiedPaths
       /\ (Len(started) = 4 /\ error # NoError /\ ManifestInputsPresent(preTree)
           /\ Exists(preTree, OldManifestPath)) => error \in InjectedErrors
       /\ (Len(resolved) >= 4 /\ InPipeline) =>
            fs[AadManifestPath] = preTree[AadManifestPath]

\* C14 witness: the step threw the ReadFileError of the missing application
\* manifest.
C14_Witness ==
  /\ ~Exists(preTree, OldManifestPath)
  /\ Len(started) = 4
  /\ error = ReadFileError("templates/appPackage/manifest.template.json does not exist")

\* C14, the other case: the step resolved without an AAD manifest.
C14_AadSkipped ==
  /\ ~Exists(preTree, OldAadManifestPath)
  /\ Len(resolved) = 4
  /\ fs[ManifestPath] = ManifestV3Content
  /\ ~Exists(fs, AadManifestPath)

\* C15: a statesMigration that starts when .fx/states does not exist
\* resolves and leaves the tree, modifiedPaths, backupPaths and the backup
\* area as they were.
C15_StatesMigrationNoop ==
  [][ (started' = Append(started, "statesMigration") /\ ~Exists(fs, OldStatesFolder)) =>
        /\ resolved' = Append(resolved, "statesMigration")
        /\ error' = NoError
        /\ fs' = fs
        /\ modifiedPaths' = modifiedPaths
        /\ backupPaths' = backupPaths
        /\ store' = store ]_vars

\* C15 witness: statesMigration has resolved on a project without .fx/states.
C15_Witness ==
  /\ "statesMigration" \in Range(resolved)
  /\ ~Exists(fs, OldStatesFolder)
  /\ ~Exists(fs, EnvFilePath)

\* C18: an updateLaunchJson that starts when .vscode/launch.json exists
\* writes it only after the backup: whenever the write is recorded the path
\* is in backupPaths and the snapshot holds the content from before the
\* write; when the file does not exist the step resolves with no backup,
\* no write, and modifiedPaths and backupPaths as they were.
C18_LaunchBackupBeforeWrite ==
  [][ started' = Append(started, "updateLaunchJson") =>
        IF Exists(fs, launchJsonPath)
          THEN /\ modifiedPaths' # modifiedPaths =>
                    /\ launchJsonPath \in backupPaths'
                    /\ store'[launchJsonPath] = fs[launchJsonPath]
               /\ error' = NoError =>
                    /\ launchJsonPath \in modifiedPaths'
                    /\ launchJsonPath \in backupPaths'
                    /\ fs'[launchJsonPath] = LaunchV3Content
          ELSE /\ resolved' = Append(resolved, "updateLaunchJson")
               /\ error' = NoError
               /\ fs' = fs
               /\ modifiedPaths' = modifiedPaths
               /\ backupPaths' = backupPaths
               /\ store' = store ]_vars

\* C18 witness: updateLaunchJson has resolved on a project with a
\* launch.json, which is backed up and rewritten.
C18_Witness ==
  /\ "updateLaunchJson" \in Range(resolved)
  /\ launchJsonPath \in backupPaths
  /\ store[launchJsonPath] = Orig
  /\ fs[launchJsonPath] = LaunchV3Content

\* C18, the other case: updateLaunchJson has resolved without a launch.json.
C18_NoLaunchSeen ==
  /\ "updateLaunchJson" \in Range(resolved)
  /\ ~Exists(fs, launchJsonPath)
  /\ launchJsonPath \notin backupPaths

\* ---------------------------------------------------------------------
\* generateSettingsJson: the settings document

\* the legacy project settings a load can return
ProjectIds == { "8f2c-01", "8f2c-02", "00000000", "" }
AppNames == { "app", "my app", "3.0.0" }
LegacyVersions == { "1.0.0", "2.0.0", "2.1.0" }
LoadedProjectSettings ==
  [ appName : AppNames, projectId : ProjectIds, version : LegacyVersions,
    isFromSample : BOOLEAN ]

\* generateSettingsJson with the application name carried into the document
settingsContentWithAppName(settings) ==
  << << "version", "3.0.0" >>, << "trackingId", settings.projectId >>,
     << "appName", settings.appName >> >>

\* the object generateSettingsJson builds: its properties in insertion order
settingsContent(settings) ==
  << << "version", "3.0.0" >>, << "trackingId", settings.projectId >> >>

\* JSON.stringify of a flat object of strings: one  "key": "value"  member
\* for every property, in insertion order
Member(property) == << "\"", property[1], "\"", ": ", "\"", property[2], "\"" >>
RECURSIVE Members(_)
Members(properties) ==
  IF properties = << >> THEN << >>
  ELSE IF Len(properties) = 1 THEN << Member(Head(properties)) >>
  ELSE << Member(Head(properties)) >> \o Members(Tail(properties))
JSONstringify(object) == Members(object)

\* the document a reader of settings.json gets: JSON.parse of the text
ParsedField(member) == << member[2], member[6] >>
FieldNames(text) == { ParsedField(text[i])[1] : i \in DOMAIN text }
FieldValue(text, name) ==
  LET i == CHOOSE i \in DOMAIN text : ParsedField(text[i])[1] = name
  IN  ParsedField(text[i])[2]

SettingsInit ==
  /\ PipelineIdle
  /\ phase = "input"
  /\ oldProjectSettings \in LoadedProjectSettings
  /\ settingsJson = << >>
  /\ StatesIdle /\ LaunchIdle /\ DependsOnIdle /\ DebugIdle /\ LoopIdle /\ ScaffoldIdle

WriteSettingsJson ==
  /\ phase = "input"
  /\ phase' = "output"
  /\ settingsJson' = JSONstringify(settingsContent(oldProjectSettings))
  /\ UNCHANGED <<pipelineVars, debugVars, loopVars, scaffoldVars,
                 oldProjectSettings, statesVars, launchVars,
                 dependsOnVars>>

SettingsNext == WriteSettingsJson
SettingsSpec == SettingsInit /\ [][SettingsNext]_vars

\* C11: for every loaded legacy settings document, the document
\* generateSettingsJson writes has exactly the two fields version and
\* trackingId, version is "3.0.0" and trackingId is the legacy projectId.
C11_SettingsDocument ==
  phase = "output" =>
    /\ Len(settingsJson) = 2
    /\ FieldNames(settingsJson) = { "version", "trackingId" }
    /\ FieldValue(settingsJson, "version") = "3.0.0"
    /\ FieldValue(settingsJson, "trackingId") = oldProjectSettings.projectId

\* C11 witness: the document written for a project whose name and id differ
\* from the version tag.
C11_Witness ==
  /\ phase = "output"
  /\ oldProjectSettings.projectId = "8f2c-02"
  /\ oldProjectSettings.appName = "my app"
  /\ FieldValue(settingsJson, "trackingId") = "8f2c-02"

\* ---------------------------------------------------------------------
\* statesMigration: the file names of .fx/states and the env files created.
\* A file name is the sequence of its characters.

Lower == { "a", "b", "c", "d", "e", "f", "g", "h", "i", "j", "k", "l", "m", "n", "o", "p", "q", "r", "s", "t", "u", "v", "w", "x", "y", "z" }
Upper == { "A", "B", "C", "D", "E", "F", "G", "H", "I", "J", "K", "L", "M", "N", "O", "P", "Q", "R", "S", "T", "U", "V", "W", "X", "Y", "Z" }
Digit == { "0", "1", "2", "3", "4", "5", "6", "7", "8", "9" }
\* the class [a-zA-Z0-9_]
EnvNameChars == Lower \cup Upper \cup Digit \cup { "_" }

statePrefix == << "s", "t", "a", "t", "e", "." >>
jsonSuffix == << ".", "j", "s", "o", "n" >>
envPrefix == << ".", "e", "n", "v", "." >>

\* name holds the literal at position i
HasAt(name, i, literal) ==
  /\ i + Len(literal) - 1 <= Len(name)
  /\ SubSeq(name, i, i + Len(literal) - 1) = literal

\* the end of the longest run of characters of the class from position i
RECURSIVE RunEnd(_, _, _)
RunEnd(name, i, class) ==
  IF i <= Len(name) /\ name[i] \in class THEN RunEnd(name, i + 1, class) ELSE i

\* (state\.)([a-zA-Z0-9_]*)(\.json) matches at position i: the class excludes
\* ".", so only the longest run can be followed by the suffix
MatchesAt(name, i) ==
  /\ HasAt(name, i, statePrefix)
  /\ HasAt(name, RunEnd(name, i + Len(statePrefix), EnvNameChars), jsonSuffix)

\* fileRegex.exec(fileName) on a fresh regular expression: the leftmost
\* match, or null
Matches(name) == \E i \in 1..Len(name) : MatchesAt(name, i)
MatchIndex(name) ==
  CHOOSE i \in 1..Len(name) :
    MatchesAt(name, i) /\ \A k \in 1..(i - 1) : ~MatchesAt(name, k)

\* fileNamesArray[2]
envNameOf(name) ==
  LET i == MatchIndex(name) + Len(statePrefix)
  IN  SubSeq(name, i, RunEnd(name, i, EnvNameChars) - 1)

\* the files statesMigration creates in the settings folder for the names
\* found in .fx/states
statesMigrationEnvFiles(names) ==
  { envPrefix \o envNameOf(name) : name \in { n \in names : Matches(n) } }

\* the environments of the projects considered and their files
EnvNames == { << "d", "e", "v" >>, << "l", "o", "c", "a", "l" >>, << "m", "y", "-", "e", "n", "v" >>, << "q", "a", "_", "1" >> }
StateFileName(env) == statePrefix \o env \o jsonSuffix
EnvFileName(env) == envPrefix \o env

\* the file names .fx/states may hold
StatesFolderNames ==
  { StateFileName(env) : env \in EnvNames } \cup
  { << "d", "e", "v", ".", "u", "s", "e", "r", "d", "a", "t", "a" >>,
    << "l", "o", "c", "a", "l", ".", "u", "s", "e", "r", "d", "a", "t", "a" >>,
    << "s", "t", "a", "t", "e", ".", "q", "a", "_", "1", ".", "j", "s", "o", "n", ".", "b", "a", "k" >> }

StatesInit ==
  /\ PipelineIdle
  /\ phase = "input"
  /\ fileNames \in SUBSET StatesFolderNames
  /\ envFiles = {}
  /\ SettingsIdle /\ LaunchIdle /\ DependsOnIdle /\ DebugIdle /\ LoopIdle /\ ScaffoldIdle

CreateEnvFiles ==
  /\ phase = "input"
  /\ phase' = "output"
  /\ envFiles' = statesMigrationEnvFiles(fileNames)
  /\ UNCHANGED <<pipelineVars, debugVars, loopVars, scaffoldVars,
                 fileNames, settingsVars, launchVars, dependsOnVars>>

StatesNext == CreateEnvFiles
StatesSpec == StatesInit /\ [][StatesNext]_vars

\* C16: after statesMigration the settings folder holds .env.<E> if and only
\* if .fx/states holds state.<E>.json, for every environment E.
C16_EnvFileIffStateFile ==
  phase = "output" =>
    \A env \in EnvNames :
      EnvFileName(env) \in envFiles <=> StateFileName(env) \in fileNames

\* C16, one direction: every state.<E>.json has its .env.<E>.
C16_EveryStateFileHasEnvFile ==
  phase = "output" =>
    \A env \in EnvNames :
      StateFileName(env) \in fileNames => EnvFileName(env) \in envFiles

\* C16, the other direction: every env file created has its state file.
C16_NoEnvFileWithoutStateFile ==
  phase = "output" =>
    \A env \in EnvNames :
      EnvFileName(env) \in envFiles => StateFileName(env) \in fileNames

\* C16 on environments named with the characters of [a-zA-Z0-9_] in folders
\* whose other files do not contain a state file's name.
C16_OnWordNamesOnly ==
  (phase = "output"
     /\ \A name \in fileNames : Matches(name) => name \in { StateFileName(env) : env \in EnvNames }) =>
    \A env \in EnvNames :
      (\A i \in DOMAIN env : env[i] \in EnvNameChars) =>
        (EnvFileName(env) \in envFiles <=> StateFileName(env) \in fileNames)

\* ---------------------------------------------------------------------
\* updateLaunchJson: the text of launch.json, a sequence of characters

MaxChunks == 3

teamsAppIdToken == << "$", "{", "t", "e", "a", "m", "s", "A", "p", "p", "I", "d", "}" >>
localTeamsAppIdToken ==
  << "$", "{", "l", "o", "c", "a", "l", "T", "e", "a", "m", "s", "A", "p", "p", "I", "d", "}" >>
localTeamsAppInternalIdToken ==
  << "$", "{", "l", "o", "c", "a", "l", "T", "e", "a", "m", "s", "A", "p", "p", "I", "n", "t", "e", "r", "n", "a", "l", "I", "d", "}" >>
devTeamsAppId ==
  << "$", "{", "d", "e", "v", ":", "t", "e", "a", "m", "s", "A", "p", "p", "I", "d", "}" >>
localTeamsAppId ==
  << "$", "{", "l", "o", "c", "a", "l", ":", "t", "e", "a", "m", "s", "A", "p", "p", "I", "d", "}" >>
localTeamsAppInternalId ==
  << "$", "{", "l", "o", "c", "a", "l", ":", "t", "e", "a", "m", "s", "A", "p", "p", "I", "n", "t", "e", "r", "n", "a", "l", "I", "d", "}" >>

\* replace with a regular expression without the g flag: the first
\* occurrence only
RECURSIVE ReplaceFirst(_, _, _)
ReplaceFirst(text, pattern, replacement) ==
  IF text = << >> THEN << >>
  ELSE IF HasAt(text, 1, pattern)
    THEN replacement \o SubSeq(text, Len(pattern) + 1, Len(text))
  ELSE << Head(text) >> \o ReplaceFirst(Tail(text), pattern, replacement)

\* text.replace(/pattern/g, replacement) for a literal pattern and a
\* replacement without substitution patterns: the occurrences are found from
\* left to right, each search resuming after the previous occurrence
RECURSIVE ReplaceAll(_, _, _)
ReplaceAll(text, pattern, replacement) ==
  IF text = << >> THEN << >>
  ELSE IF HasAt(text, 1, pattern)
    THEN replacement \o
         ReplaceAll(SubSeq(text, Len(pattern) + 1, Len(text)), pattern, replacement)
  ELSE << Head(text) >> \o ReplaceAll(Tail(text), pattern, replacement)

\* updateLaunchJson: result, the three replacements one after the other
\* the first replace with a replacement that holds its own token
launchJsonReplaceKeepsToken(text) ==
  ReplaceAll(text, teamsAppIdToken, << "x" >> \o teamsAppIdToken)
launchJsonReplace(text) ==
  LET first == ReplaceAll(text, teamsAppIdToken, devTeamsAppId)
      second == ReplaceAll(first, localTeamsAppIdToken, localTeamsAppId)
  IN  ReplaceAll(second, localTeamsAppInternalIdToken, localTeamsAppInternalId)

\* the substitution table read as one pass over the text: at every position
\* where a token stands, its replacement; elsewhere the character itself
SubstitutionTable ==
  { << teamsAppIdToken, devTeamsAppId >>,
    << localTeamsAppIdToken, localTeamsAppId >>,
    << localTeamsAppInternalIdToken, localTeamsAppInternalId >> }
RECURSIVE Substituted(_)
Substituted(text) ==
  IF text = << >> THEN << >>
  ELSE IF \E row \in SubstitutionTable : HasAt(text, 1, row[1])
    THEN LET row == CHOOSE row \in SubstitutionTable : HasAt(text, 1, row[1])
         IN  row[2] \o Substituted(SubSeq(text, Len(row[1]) + 1, Len(text)))
  ELSE << Head(text) >> \o Substituted(Tail(text))

Occurs(text, pattern) == \E i \in 1..Len(text) : HasAt(text, i, pattern)

\* the pieces the texts considered are made of
LaunchFragments ==
  { << "$", "{", "t", "e", "a", "m", "s", "A", "p", "p", "I", "d", "}" >>,
    << "$", "{", "l", "o", "c", "a", "l", "T", "e", "a", "m", "s", "A", "p", "p", "I", "d", "}" >>,
    << "$", "{", "l", "o", "c", "a", "l", "T", "e", "a", "m", "s", "A", "p", "p", "I", "n", "t", "e", "r", "n", "a", "l", "I", "d", "}" >>,
    << "$", "{", "d", "e", "v", ":", "t", "e", "a", "m", "s", "A", "p", "p", "I", "d", "}" >>,
    << "$", "{" >>,
    << "}" >>,
    << "t", "e", "a", "m", "s", "A", "p", "p", "I", "d", "}" >>,
    << "$", "{", "l", "o", "c", "a", "l" >>,
    << "T", "e", "a", "m", "s", "A", "p", "p", "I", "d", "}" >>,
    << "x" >> }
RECURSIVE Flatten(_)
Flatten(chunks) ==
  IF chunks = << >> THEN << >> ELSE Head(chunks) \o Flatten(Tail(chunks))
LaunchTexts ==
  { Flatten(chunks) : chunks \in UNION { [1..n -> LaunchFragments] : n \in 0..MaxChunks } }

LaunchInit ==
  /\ PipelineIdle
  /\ phase = "input"
  /\ launchJsonContent \in LaunchTexts
  /\ launchJsonResult = << >>
  /\ SettingsIdle /\ StatesIdle /\ DependsOnIdle /\ DebugIdle /\ LoopIdle /\ ScaffoldIdle

ReplaceLaunchJson ==
  /\ phase = "input"
  /\ phase' = "output"
  /\ launchJsonResult' = launchJsonReplace(launchJsonContent)
  /\ UNCHANGED <<pipelineVars, debugVars, loopVars, scaffoldVars,
                 launchJsonContent, settingsVars, statesVars,
                 dependsOnVars>>

LaunchNext == ReplaceLaunchJson
LaunchSpec == LaunchInit /\ [][LaunchNext]_vars

\* C17: the text updateLaunchJson writes is the text it read with every
\* occurrence of ${teamsAppId}, ${localTeamsAppId} and
\* ${localTeamsAppInternalId} replaced by ${dev:teamsAppId},
\* ${local:teamsAppId} and ${local:teamsAppInternalId}, every other
\* character unchanged; no occurrence of the three tokens is left.
C17_LaunchSubstitution ==
  phase = "output" =>
    /\ launchJsonResult = Substituted(launchJsonContent)
    /\ \A row \in SubstitutionTable : ~Occurs(launchJsonResult, row[1])

\* C17 witness: a text with the same token twice around other text.
C17_Witness ==
  /\ phase = "output"
  /\ launchJsonContent = teamsAppIdToken \o << "x" >> \o teamsAppIdToken
  /\ launchJsonResult = devTeamsAppId \o << "x" >> \o devTeamsAppId

\* C17, a second text: two different tokens and the pieces of a third.
C17_MixedSeen ==
  /\ phase = "output"
  /\ launchJsonContent =
       localTeamsAppIdToken \o localTeamsAppInternalIdToken \o << "$", "{" >>
  /\ launchJsonResult = localTeamsAppId \o localTeamsAppInternalId \o << "$", "{" >>

\* C36: the three substitutions of updateLaunchJson applied to their own
\* output give the same text, for every text read: no replacement holds one
\* of the three tokens.
C36_LaunchIdempotent ==
  /\ \A row \in SubstitutionTable, other \in SubstitutionTable : ~Occurs(row[2], other[1])
  /\ phase = "output" => launchJsonReplace(launchJsonResult) = launchJsonResult
\* C36 witness: a text that the substitutions change
C36_Witness ==
  /\ phase = "output"
  /\ Occurs(launchJsonContent, localTeamsAppIdToken)
  /\ launchJsonResult # launchJsonContent
  /\ launchJsonReplace(launchJsonResult) = launchJsonResult

\* ---------------------------------------------------------------------
\* replaceInDependsOn: the dependsOn references of the tasks of tasks.json

MaxTasks == 2
MaxDeps == 2

\* the values of task["dependsOn"]: no key, a string, or an array of labels
NoDependsOn == [ kind |-> "absent", value |-> "", items |-> << >> ]
StringDependsOn(v) == [ kind |-> "string", value |-> v, items |-> << >> ]
ArrayDependsOn(labels) == [ kind |-> "array", value |-> "", items |-> labels ]

\* if (task["dependsOn"]): a missing key and the empty string are falsy, an
\* array is truthy even when empty
Truthy(dependsOn) ==
  \/ dependsOn.kind = "array"
  \/ dependsOn.kind = "string" /\ dependsOn.value # ""

Includes(items, v) == \E i \in DOMAIN items : items[i] = v
\* findIndex: the first index that holds the label, 0 when none does
FindIndex(items, v) ==
  IF Includes(items, v)
    THEN CHOOSE i \in DOMAIN items :
           items[i] = v /\ \A k \in 1..(i - 1) : items[k] # v
    ELSE 0
\* splice(index, 1, ...inserted)
Splice(items, index, inserted) ==
  SubSeq(items, 1, index - 1) \o inserted \o SubSeq(items, index + 1, Len(items))

\* the body of the loop with a matching string kept a string: the first
\* replacement only
replaceInTaskKeepsString(oldLabel, task, newLabels) ==
  LET dependsOn == task.dependsOn IN
  IF ~Truthy(dependsOn) THEN task
  ELSE IF dependsOn.kind = "string"
    THEN IF dependsOn.value = oldLabel
           THEN IF Len(newLabels) > 0
                  THEN [task EXCEPT !.dependsOn = StringDependsOn(newLabels[1])]
                  ELSE [task EXCEPT !.dependsOn = NoDependsOn]
           ELSE task
  ELSE LET index == FindIndex(dependsOn.items, oldLabel) IN
       IF index = 0 THEN task
       ELSE IF Len(newLabels) > 0 /\ ~Includes(dependsOn.items, newLabels[1])
         THEN [task EXCEPT !.dependsOn =
                 ArrayDependsOn(Splice(dependsOn.items, index, newLabels))]
       ELSE [task EXCEPT !.dependsOn =
               ArrayDependsOn(Splice(dependsOn.items, index, << >>))]

\* the body of the loop without the test index !== -1: splice(-1, 1, ...)
\* works on the last entry
replaceInTaskNoIndexTest(oldLabel, task, newLabels) ==
  LET dependsOn == task.dependsOn IN
  IF ~Truthy(dependsOn) THEN task
  ELSE IF dependsOn.kind = "string"
    THEN IF dependsOn.value = oldLabel
           THEN IF Len(newLabels) > 0
                  THEN [task EXCEPT !.dependsOn = ArrayDependsOn(newLabels)]
                  ELSE [task EXCEPT !.dependsOn = NoDependsOn]
           ELSE task
  ELSE LET found == FindIndex(dependsOn.items, oldLabel)
           index == IF found = 0 THEN Len(dependsOn.items) ELSE found
       IN
       IF index = 0 THEN task
       ELSE IF Len(newLabels) > 0 /\ ~Includes(dependsOn.items, newLabels[1])
         THEN [task EXCEPT !.dependsOn =
                 ArrayDependsOn(Splice(dependsOn.items, index, newLabels))]
       ELSE [task EXCEPT !.dependsOn =
               ArrayDependsOn(Splice(dependsOn.items, index, << >>))]

\* the body of the loop of replaceInDependsOn, for one task
replaceInTask(oldLabel, task, newLabels) ==
  LET dependsOn == task.dependsOn IN
  IF ~Truthy(dependsOn) THEN task
  ELSE IF dependsOn.kind = "string"
    THEN IF dependsOn.value = oldLabel
           THEN IF Len(newLabels) > 0
                  THEN [task EXCEPT !.dependsOn = ArrayDependsOn(newLabels)]
                  ELSE [task EXCEPT !.dependsOn = NoDependsOn]
           ELSE task
  ELSE LET index == FindIndex(dependsOn.items, oldLabel) IN
       IF index = 0 THEN task
       ELSE IF Len(newLabels) > 0 /\ ~Includes(dependsOn.items, newLabels[1])
         THEN [task EXCEPT !.dependsOn =
                 ArrayDependsOn(Splice(dependsOn.items, index, newLabels))]
       ELSE [task EXCEPT !.dependsOn =
               ArrayDependsOn(Splice(dependsOn.items, index, << >>))]

replaceInDependsOn(oldLabel, taskList, newLabels) ==
  [ i \in DOMAIN taskList |-> replaceInTask(oldLabel, taskList[i], newLabels) ]

\* the labels, tasks and calls considered
TaskLabels == { "A", "C", "X" }
OldLabels == { "A" }
ReplacementLists == { << >>, << "X" >>, << "X", "Y" >>, << "Y", "X" >>, << "C" >> }
SeqsUpTo(S, n) == UNION { [1..k -> S] : k \in 0..n }
DependsOnValues ==
  { NoDependsOn } \cup
  { StringDependsOn(v) : v \in { "A", "C", "" } } \cup
  { ArrayDependsOn(labels) : labels \in SeqsUpTo(TaskLabels, MaxDeps) }
Tasks == [ dependsOn : DependsOnValues ]

DependsOnInit ==
  /\ PipelineIdle
  /\ phase = "input"
  /\ label \in OldLabels
  /\ replacements \in ReplacementLists
  /\ tasks \in SeqsUpTo(Tasks, MaxTasks)
  /\ tasksBefore = tasks
  /\ SettingsIdle /\ StatesIdle /\ LaunchIdle /\ DebugIdle /\ LoopIdle /\ ScaffoldIdle

ReplaceInDependsOn ==
  /\ phase = "input"
  /\ phase' = "output"
  /\ tasks' = replaceInDependsOn(label, tasks, replacements)
  /\ UNCHANGED <<pipelineVars, debugVars, loopVars, scaffoldVars,
                 label, replacements, tasksBefore, settingsVars,
                 statesVars, launchVars>>

DependsOnNext == ReplaceInDependsOn
DependsOnSpec == DependsOnInit /\ [][DependsOnNext]_vars

\* C19: after replaceInDependsOn with n >= 1 replacement labels, a task whose
\* dependsOn was the bare string equal to the old label has dependsOn equal
\* to the sequence of the n labels in their order; a task whose dependsOn was
\* a bare string different from the old label is as it was.
C19_StringForm ==
  phase = "output" =>
    /\ Len(tasks) = Len(tasksBefore)
    /\ \A i \in DOMAIN tasksBefore :
         tasksBefore[i].dependsOn.kind = "string" =>
           IF tasksBefore[i].dependsOn.value = label
             THEN Len(replacements) >= 1 =>
                    /\ tasks[i].dependsOn.kind = "array"
                    /\ tasks[i].dependsOn.items = replacements
             ELSE tasks[i] = tasksBefore[i]

\* C19 witness: "A" replaced by [X, Y] next to a task that depends on "C".
C19_Witness ==
  /\ phase = "output"
  /\ label = "A"
  /\ replacements = << "X", "Y" >>
  /\ tasksBefore = << [dependsOn |-> StringDependsOn("A")],
                      [dependsOn |-> StringDependsOn("C")] >>
  /\ tasks = << [dependsOn |-> ArrayDependsOn(<< "X", "Y" >>)],
                [dependsOn |-> StringDependsOn("C")] >>

\* the entries of a sequence other than v, in their order
RECURSIVE Without(_, _)
Without(items, v) ==
  IF items = << >> THEN << >>
  ELSE IF Head(items) = v THEN Without(Tail(items), v)
  ELSE << Head(items) >> \o Without(Tail(items), v)

\* C20: after replaceInDependsOn with no replacement label, a dependsOn that
\* referred to the old label holds the other entries in their order, and the
\* task has no dependsOn key when no entry is left: when dependsOn was the
\* bare string equal to the label or a sequence whose only entry is the label.
C20_ZeroReplacements ==
  (phase = "output" /\ replacements = << >>) =>
    \A i \in DOMAIN tasksBefore :
      LET before == tasksBefore[i].dependsOn
          after == tasks[i].dependsOn
      IN  /\ (before.kind = "string" /\ before.value = label) =>
               after.kind = "absent"
          /\ (before.kind = "array" /\ Includes(before.items, label)) =>
               IF Without(before.items, label) = << >>
                 THEN after.kind = "absent"
                 ELSE after = ArrayDependsOn(Without(before.items, label))

\* C20, the part about the entries left: a sequence that holds the label once
\* and another entry ends as the other entries in their order.
C20_RemainingEntriesInOrder ==
  (phase = "output" /\ replacements = << >>) =>
    \A i \in DOMAIN tasksBefore :
      LET before == tasksBefore[i].dependsOn IN
      (before.kind = "array" /\ Includes(before.items, label)
         /\ Len(Without(before.items, label)) = Len(before.items) - 1
         /\ Len(before.items) > 1) =>
        tasks[i].dependsOn = ArrayDependsOn(Without(before.items, label))

\* C20, the part about the key: a sequence whose only entry is the label
\* ends as an empty sequence, the key still there.
C20_EmptySequenceKept ==
  (phase = "output" /\ replacements = << >>) =>
    \A i \in DOMAIN tasksBefore :
      tasksBefore[i].dependsOn = ArrayDependsOn(<< label >>) =>
        tasks[i].dependsOn = ArrayDependsOn(<< >>)

\* a dependsOn refers to a label: as the bare string or as an entry
References(dependsOn, v) ==
  \/ dependsOn.kind = "string" /\ dependsOn.value = v
  \/ dependsOn.kind = "array" /\ Includes(dependsOn.items, v)

\* C21: after replaceInDependsOn with n >= 1 replacement labels, every task
\* whose dependsOn referred to the label refers to each of the n labels, and
\* no task's dependsOn refers to the label any more; for every task list,
\* also those whose sequences hold the label twice or hold a replacement.
C21_RelabelComplete ==
  (phase = "output" /\ Len(replacements) >= 1) =>
    \A i \in DOMAIN tasksBefore :
      /\ References(tasksBefore[i].dependsOn, label) =>
           \A k \in DOMAIN replacements :
             References(tasks[i].dependsOn, replacements[k])
      /\ ~References(tasks[i].dependsOn, label)

\* C21, the case of a sequence that already holds the first replacement: the
\* label is taken out and the other replacements are not put in.
C21_FirstReplacementPresent ==
  (phase = "output" /\ label = "A" /\ replacements = << "X", "Y" >>) =>
    \A i \in DOMAIN tasksBefore :
      tasksBefore[i].dependsOn = ArrayDependsOn(<< "A", "X" >>) =>
        tasks[i].dependsOn = ArrayDependsOn(<< "X" >>)

\* C21, the case of a sequence that holds the label twice: the second
\* occurrence stays.
C21_SecondOccurrenceKept ==
  (phase = "output" /\ label = "A" /\ replacements = << "C" >>) =>
    \A i \in DOMAIN tasksBefore :
      tasksBefore[i].dependsOn = ArrayDependsOn(<< "A", "A" >>) =>
        tasks[i].dependsOn = ArrayDependsOn(<< "C", "A" >>)

\* C21 on sequences that hold the label once and none of the replacements.
C21_OnSimpleSequences ==
  (phase = "output" /\ Len(replacements) >= 1) =>
    \A i \in DOMAIN tasksBefore :
      LET before == tasksBefore[i].dependsOn IN
      (References(before, label)
         /\ Len(Without(before.items, label)) >= Len(before.items) - 1
         /\ \A k \in DOMAIN replacements : ~Includes(before.items, replacements[k])) =>
        /\ \A k \in DOMAIN replacements :
             References(tasks[i].dependsOn, replacements[k])
        /\ ~References(tasks[i].dependsOn, label)

\* C29: replaceInDependsOn with a label that no task's dependsOn refers to
\* leaves the task list as it was: the same tasks in the same order, every
\* dependsOn of the same form and content.
C29_NoopRelabel ==
  (phase = "output"
     /\ \A i \in DOMAIN tasksBefore : ~References(tasksBefore[i].dependsOn, label)) =>
    tasks = tasksBefore

\* C29 witness: a call with replacements on a list whose tasks depend on
\* other labels, one by a string and one by a sequence.
C29_Witness ==
  /\ phase = "output"
  /\ label = "A"
  /\ replacements = << "X", "Y" >>
  /\ tasksBefore = << [dependsOn |-> StringDependsOn("C")],
                      [dependsOn |-> ArrayDependsOn(<< "C", "X" >>)] >>
  /\ tasks = tasksBefore

\* ---------------------------------------------------------------------
\* The debug-task sub-pipeline: the sub-migrations over the tasks of
\* tasks.json and the AppYmlConfig they fill

MaxDebugTasks == 3

\* TaskCommand, TaskLabel and Prerequisite of common/local
TaskCommand ==
  [ checkPrerequisites |-> "debug-check-prerequisites",
    startLocalTunnel |-> "debug-start-local-tunnel",
    npmInstall |-> "debug-npm-install",
    setUpTab |-> "debug-set-up-tab",
    setUpBot |-> "debug-set-up-bot",
    setUpSSO |-> "debug-set-up-sso",
    prepareManifest |-> "debug-prepare-manifest" ]
TaskLabel == [ StartLocalTunnel |-> "Start local tunnel" ]
Prerequisite ==
  [ nodejs |-> "nodejs", m365Account |-> "m365Account",
    portOccupancy |-> "portOccupancy", func |-> "func", devCert |-> "devCert",
    dotnet |-> "dotnet" ]

\* the markers looked for in the command of a shell task
validateDependenciesMarker == "${command:fx-extension.validate-dependencies}"
backendExtensionsInstallMarker == "${command:fx-extension.backend-extensions-install}"
validateLocalPrerequisitesMarker == "${command:fx-extension.validate-local-prerequisites}"
preDebugCheckMarker == "${command:fx-extension.pre-debug-check}"
\* command.includes(marker), the command of a task being the set of the
\* pieces of its text: the command name, or the markers of a shell command
CommandIncludes(command, marker) == marker \in command

\* the labels the legacy extension provided
frontendStartLabel == "teamsfx: frontend start"
authStartLabel == "teamsfx: auth start"
botStartLabel == "teamsfx: bot start"
backendWatchLabel == "teamsfx: backend watch"
backendStartLabel == "teamsfx: backend start"
ngrokStartLabel == "teamsfx: ngrok start"

\* the secret argument of a task: botPassword or clientSecret
MissingArg == [ kind |-> "missing", chars |-> << >> ]
NotStringArg == [ kind |-> "notString", chars |-> << >> ]
StringArg(chars) == [ kind |-> "string", chars |-> chars ]
\* args.prerequisites: an array of names, or no array
NoPrerequisites == [ kind |-> "absent", items |-> << >> ]
PrerequisiteArray(items) == [ kind |-> "array", items |-> items ]
NoArgs == [ secret |-> MissingArg, prerequisites |-> NoPrerequisites, projects |-> << >> ]

\* a task of tasks.json; madeBy names the function that built a synthesized
\* task, matchedBy the sub-migrations whose test the task has passed
Task(lbl, type, command, dependsOn, args) ==
  [ label |-> lbl, type |-> type,
    command |-> IF command = "" THEN {} ELSE { command }, dependsOn |-> dependsOn,
    args |-> args, madeBy |-> "", matchedBy |-> {} ]
Synthesized(lbl, type, command, maker) ==
  [ Task(lbl, type, command, NoDependsOn, NoArgs) EXCEPT !.madeBy = maker ]
Matched(task, rule) == [ task EXCEPT !.matchedBy = @ \cup { rule } ]

\* the tasks the utilities build
createResourcesTask(lbl) == Synthesized(lbl, "teamsfx", "provision", "createResourcesTask")
setUpLocalProjectsTask(lbl) == Synthesized(lbl, "teamsfx", "deploy", "setUpLocalProjectsTask")
startFrontendTask(lbl) == Synthesized(lbl, "shell", "node run.tab.js", "startFrontendTask")
startAuthTask(lbl) == Synthesized(lbl, "shell", "node run.auth.js", "startAuthTask")
startBotTask(lbl) == Synthesized(lbl, "shell", "node run.bot.js", "startBotTask")
startBackendTask(lbl) == Synthesized(lbl, "shell", "node run.api.js", "startBackendTask")
watchBackendTask(lbl) == Synthesized(lbl, "shell", "tsc --watch", "watchBackendTask")

\* splice(index, 1), splice(index, 0, task), splice(index, 1, task) on a
\* list indexed from 1
RemoveAt(list, index) == SubSeq(list, 1, index - 1) \o SubSeq(list, index + 1, Len(list))
InsertAt(list, index, task) ==
  SubSeq(list, 1, index - 1) \o << task >> \o SubSeq(list, index, Len(list))
ReplaceAt(list, index, task) == [ list EXCEPT ![index] = task ]

\* the label of a task whose label is not a string, and typeof label === "string"
noStringLabel == "(no string)"
IsStringLabel(lbl) == lbl # noStringLabel
getLabels(taskList) ==
  { taskList[i].label : i \in { k \in DOMAIN taskList : IsStringLabel(taskList[k].label) } }

\* generateLabel: the base, or the base with the first number that gives a
\* label not in use
LabelCandidates ==
  [ base \in { "Create resources", "Set up local projects", "Start frontend",
               "Start auth", "Start bot", "Start backend", "Watch backend" } |->
      CASE base = "Create resources" ->
             << "Create resources", "Create resources 1", "Create resources 2" >>
        [] base = "Set up local projects" ->
             << "Set up local projects", "Set up local projects 1",
                "Set up local projects 2" >>
        [] base = "Start frontend" -> << "Start frontend", "Start frontend 1", "Start frontend 2" >>
        [] base = "Start auth" -> << "Start auth", "Start auth 1", "Start auth 2" >>
        [] base = "Start bot" -> << "Start bot", "Start bot 1", "Start bot 2" >>
        [] base = "Start backend" -> << "Start backend", "Start backend 1", "Start backend 2" >>
        [] base = "Watch backend" -> << "Watch backend", "Watch backend 1", "Watch backend 2" >> ]
generateLabel(base, existingLabels) ==
  LET candidates == LabelCandidates[base]
      first == CHOOSE i \in DOMAIN candidates :
                 /\ candidates[i] \notin existingLabels
                 /\ \A k \in 1..(i - 1) : candidates[k] \in existingLabels
  IN  candidates[first]
\* value.startsWith(base), for the labels generateLabel gives
StartsWith(value, base) == \E i \in DOMAIN LabelCandidates[base] : LabelCandidates[base][i] = value
\* generatedLabels.find((value) => value.startsWith(base)), "" when none
FindGenerated(generatedLabels, base) ==
  IF \E i \in DOMAIN generatedLabels : StartsWith(generatedLabels[i], base)
    THEN generatedLabels[CHOOSE i \in DOMAIN generatedLabels :
           /\ StartsWith(generatedLabels[i], base)
           /\ \A k \in 1..(i - 1) : ~StartsWith(generatedLabels[k], base)]
    ELSE ""

\* AppYmlConfig: four sections, each absent until assigned; assigned counts
\* the assignments of an object to the section
SectionNames == { "registerApp", "provision", "configureApp", "deploy" }
NoSections ==
  [ registerApp |-> [ present |-> FALSE, assigned |-> 0, aad |-> FALSE,
                      teamsApp |-> FALSE ],
    provision |-> [ present |-> FALSE, assigned |-> 0, bot |-> "" ],
    configureApp |-> [ present |-> FALSE, assigned |-> 0, tab |-> "", aad |-> FALSE,
                       teamsApp |-> "" ],
    deploy |-> [ present |-> FALSE, assigned |-> 0, tools |-> {},
                 npmCommands |-> << >>, dotnetCommand |-> "", tab |-> "",
                 bot |-> FALSE, sso |-> FALSE ] ]

\* appYmlConfig.section = {} whether or not the section is there
AssignSection(config, section) ==
  [ config EXCEPT ![section] =
      [ NoSections[section] EXCEPT !.present = TRUE,
                                   !.assigned = config[section].assigned + 1 ] ]
\* if (!appYmlConfig.section) { appYmlConfig.section = {}; }
EnsureSection(config, section) ==
  IF config[section].present THEN config ELSE AssignSection(config, section)

\* BuildArgs: the words of args, and workingDirectory
NpmCommand(args, workingDirectory) == [ args |-> args, workingDirectory |-> workingDirectory ]
defaultNpmInstallArg == "${defaultNpmInstallArg}"
runUtilsArgs == << "install", "-D", "@microsoft/teamsfx-run-utils@alpha" >>
\* the start sub-migrations push whether or not the entry is there
PushRunUtilsInstallAlways(config) ==
  [ EnsureSection(config, "deploy") EXCEPT
      !.deploy.npmCommands = Append(@, NpmCommand(runUtilsArgs, << "." >>)) ]
dotnetBuildExtensions == "build extensions.csproj -o ./bin --ignore-failed-sources in ./api"
\* the npmCommands push of the start sub-migrations
PushRunUtilsInstall(config) ==
  LET c == EnsureSection(config, "deploy") IN
  IF \E i \in DOMAIN c.deploy.npmCommands : c.deploy.npmCommands[i].args = runUtilsArgs
    THEN c
    ELSE [ c EXCEPT !.deploy.npmCommands = Append(@, NpmCommand(runUtilsArgs, << "." >>)) ]

\* OldProjectSettingsHelper on the capabilities of the legacy project
includeTab(settings) == "tab" \in settings
includeBot(settings) == "bot" \in settings
includeFunction(settings) == "function" \in settings
includeSSO(settings) == "sso" \in settings
includeFuncHostedBot(settings) == "funcHostedBot" \in settings

\* saveRunScript and updateLocalEnv of the utilities: what they are called with
saveRunScript(migrationContext, fileName) ==
  [ migrationContext EXCEPT !.scripts = Append(@, fileName) ]
updateLocalEnv(migrationContext, envs) ==
  [ migrationContext EXCEPT !.localEnv = Append(@, envs) ]

\* the two helper tasks put in without the two ++index
handleProvisionAndDeployAtIndex(context, index, lbl) ==
  LET removed == RemoveAt(context.tasks, index)
      existingLabels == getLabels(removed)
      generatedBefore == FindGenerated(context.generatedLabels, "Create resources")
      createResourcesLabel ==
        IF generatedBefore # "" THEN generatedBefore
        ELSE generateLabel("Create resources", existingLabels)
      found == FindGenerated(context.generatedLabels, "Set up local projects")
      setUpLocalProjectsLabel ==
        IF found # "" THEN found
        ELSE generateLabel("Set up local projects", existingLabels)
      inserted ==
        IF generatedBefore = ""
          THEN InsertAt(InsertAt(removed, index, createResourcesTask(createResourcesLabel)),
                        index + 1, setUpLocalProjectsTask(setUpLocalProjectsLabel))
          ELSE removed
      labels ==
        IF generatedBefore = ""
          THEN context.generatedLabels \o << createResourcesLabel, setUpLocalProjectsLabel >>
          ELSE context.generatedLabels
  IN  [ context |->
          [ context EXCEPT
              !.tasks = replaceInDependsOn(lbl, inserted,
                          << createResourcesLabel, setUpLocalProjectsLabel >>),
              !.generatedLabels = labels ],
        index |-> index ]
\* handleProvisionAndDeploy: the task at index is taken out and, the first
\* time in a run, the two helper tasks are put in its place
handleProvisionAndDeploy(context, index, lbl) ==
  LET removed == RemoveAt(context.tasks, index)
      existingLabels == getLabels(removed)
      generatedBefore == FindGenerated(context.generatedLabels, "Create resources")
      createResourcesLabel ==
        IF generatedBefore # "" THEN generatedBefore
        ELSE generateLabel("Create resources", existingLabels)
      found == FindGenerated(context.generatedLabels, "Set up local projects")
      setUpLocalProjectsLabel ==
        IF found # "" THEN found
        ELSE generateLabel("Set up local projects", existingLabels)
      inserted ==
        IF generatedBefore = ""
          THEN InsertAt(InsertAt(removed, index, createResourcesTask(createResourcesLabel)),
                        index + 1, setUpLocalProjectsTask(setUpLocalProjectsLabel))
          ELSE removed
      labels ==
        IF generatedBefore = ""
          THEN context.generatedLabels \o << createResourcesLabel, setUpLocalProjectsLabel >>
          ELSE context.generatedLabels
  IN  [ context |->
          [ context EXCEPT
              !.tasks = replaceInDependsOn(lbl, inserted,
                          << createResourcesLabel, setUpLocalProjectsLabel >>),
              !.generatedLabels = labels ],
        index |-> IF generatedBefore = "" THEN index + 2 ELSE index ]

IsTeamsfx(task, command) == task.type = "teamsfx" /\ task.command = { command }
IsShell(task, marker) == task.type = "shell" /\ CommandIncludes(task.command, marker)

\* what one iteration of a scan loop leaves: the context, the index of the
\* next iteration, and whether the loop was left with break
Continue(context, index) == [ context |-> context, index |-> index, break |-> FALSE ]
Break(context, index) == [ context |-> context, index |-> index, break |-> TRUE ]

\* the prerequisites that stay in the task and those that become tools
IsKeptPrerequisite(prerequisite) ==
  prerequisite \in { Prerequisite.nodejs, Prerequisite.m365Account,
                     Prerequisite.portOccupancy }
ToolPrerequisites == { Prerequisite.func, Prerequisite.devCert, Prerequisite.dotnet }
\* if (Object.keys(toolsArgs).length > 0) { ... deploy.tools = toolsArgs; }
SetPrerequisiteTools(config, toolsArgs) ==
  IF toolsArgs # {}
    THEN [ EnsureSection(config, "deploy") EXCEPT !.deploy.tools = toolsArgs ]
    ELSE config

migrateTransparentPrerequisiteAt(context, index) ==
  LET task == context.tasks[index] IN
    IF ~IsTeamsfx(task, TaskCommand.checkPrerequisites)
      THEN Continue(context, index + 1)
    ELSE
      LET prerequisites == task.args.prerequisites
          toolsArgs == { prerequisites.items[i] : i \in DOMAIN prerequisites.items }
                         \cap ToolPrerequisites
          newPrerequisites == SelectSeq(prerequisites.items, IsKeptPrerequisite)
          newTask == Matched(
                       IF prerequisites.kind = "array"
                         THEN [ task EXCEPT !.args.prerequisites =
                                  PrerequisiteArray(newPrerequisites) ]
                         ELSE task,
                       "migrateTransparentPrerequisite")
          config == IF prerequisites.kind = "array"
                      THEN SetPrerequisiteTools(context.appYmlConfig, toolsArgs)
                      ELSE context.appYmlConfig
      IN  Continue([ context EXCEPT !.tasks = ReplaceAt(@, index, newTask),
                                    !.appYmlConfig = config ], index + 1)
RECURSIVE migrateTransparentPrerequisiteFrom(_, _)
migrateTransparentPrerequisiteFrom(context, index) ==
  IF index > Len(context.tasks) THEN context
  ELSE LET iteration == migrateTransparentPrerequisiteAt(context, index)
       IN  migrateTransparentPrerequisiteFrom(iteration.context, iteration.index)
migrateTransparentPrerequisite(context) == migrateTransparentPrerequisiteFrom(context, 1)

migrateTransparentLocalTunnelAt(context, index) ==
  IF IsTeamsfx(context.tasks[index], TaskCommand.startLocalTunnel)
    THEN Continue([ context EXCEPT !.tasks[index] =
                      Matched(@, "migrateTransparentLocalTunnel") ], index + 1)
    ELSE Continue(context, index + 1)
RECURSIVE migrateTransparentLocalTunnelFrom(_, _)
migrateTransparentLocalTunnelFrom(context, index) ==
  IF index > Len(context.tasks) THEN context
  ELSE LET iteration == migrateTransparentLocalTunnelAt(context, index)
       IN  migrateTransparentLocalTunnelFrom(iteration.context, iteration.index)
migrateTransparentLocalTunnel(context) == migrateTransparentLocalTunnelFrom(context, 1)

\* an element of args.projects: an object with cwd and npmInstallArgs, each a
\* string (its pieces or words), an array of strings, or something else
workspaceFolder == "${workspaceFolder}"
NoValue == [ type |-> "undefined", words |-> << >> ]
StringValue(words) == [ type |-> "string", words |-> words ]
ArrayValue(words) == [ type |-> "array", words |-> words ]
Project(directory, npmInstallArgs) ==
  [ object |-> TRUE, cwd |-> directory, npmInstallArgs |-> npmInstallArgs ]
NotAnObject == [ object |-> FALSE, cwd |-> NoValue, npmInstallArgs |-> NoValue ]
HasStringCwd(project) == project.object /\ project.cwd.type = "string"
\* the entry one project contributes
NpmInstallArg(project) ==
  NpmCommand(
    IF project.npmInstallArgs.type = "string"
         \/ (project.npmInstallArgs.type = "array" /\ project.npmInstallArgs.words # << >>)
      THEN << "install" >> \o project.npmInstallArgs.words
      ELSE << "install" >>,
    ReplaceFirst(project.cwd.words, << workspaceFolder >>, << "." >>))
\* the npmCommands one debug-npm-install task contributes
RECURSIVE NpmInstallArgs(_)
NpmInstallArgs(projects) ==
  IF projects = << >> THEN << >>
  ELSE IF ~HasStringCwd(Head(projects)) THEN NpmInstallArgs(Tail(projects))
  ELSE << NpmInstallArg(Head(projects)) >> \o NpmInstallArgs(Tail(projects))
PushNpmCommands(config, commands) ==
  IF commands = << >> THEN config
  ELSE [ EnsureSection(config, "deploy") EXCEPT !.deploy.npmCommands = @ \o commands ]

migrateTransparentNpmInstallAt(context, index) ==
  LET task == context.tasks[index] IN
    IF ~IsTeamsfx(task, TaskCommand.npmInstall)
      THEN Continue(context, index + 1)
    ELSE
      LET config == PushNpmCommands(context.appYmlConfig,
                                    NpmInstallArgs(task.args.projects))
          relabelled == IF IsStringLabel(task.label)
                          THEN replaceInDependsOn(task.label, context.tasks, << >>)
                          ELSE context.tasks
      IN  Continue([ context EXCEPT !.tasks = RemoveAt(relabelled, index),
                                    !.appYmlConfig = config ], index)
RECURSIVE migrateTransparentNpmInstallFrom(_, _)
migrateTransparentNpmInstallFrom(context, index) ==
  IF index > Len(context.tasks) THEN context
  ELSE LET iteration == migrateTransparentNpmInstallAt(context, index)
       IN  migrateTransparentNpmInstallFrom(iteration.context, iteration.index)
migrateTransparentNpmInstall(context) == migrateTransparentNpmInstallFrom(context, 1)

\* the secret of a set-up task: the text of the argument, or the value of the
\* environment variable the argument names with ${env:NAME}
envReferencePrefix == << "$", "{", "e", "n", "v", ":" >>
IsEnvReference(chars) ==
  /\ HasAt(chars, 1, envReferencePrefix)
  /\ Len(chars) > Len(envReferencePrefix)
  /\ chars[Len(chars)] = "}"
EnvReferenceName(chars) == SubSeq(chars, Len(envReferencePrefix) + 1, Len(chars) - 1)
\* process.env[name]: the empty text stands for undefined, both are falsy
ProcessEnv(environment, name) ==
  IF name \in DOMAIN environment.processEnv THEN environment.processEnv[name] ELSE << >>
\* LocalCrypto.encrypt of a plaintext that succeeds
cryptoPrefix == << "c", "r", "y", "p", "t", "o", "_" >>
RECURSIVE Reverse(_)
Reverse(chars) ==
  IF chars = << >> THEN << >> ELSE Reverse(Tail(chars)) \o << Head(chars) >>
Encrypted(plaintext) == cryptoPrefix \o Reverse(plaintext)
\* the secret a string argument stands for
ResolvedSecret(arg, environment) ==
  IF IsEnvReference(arg.chars)
    THEN ProcessEnv(environment, EnvReferenceName(arg.chars))
    ELSE arg.chars
\* envs[key] = secret, without encrypt
SecretEnvsPlaintext(arg, key, environment) ==
  IF arg.kind = "string" /\ arg.chars # << >>
    THEN LET secret == ResolvedSecret(arg, environment)
         IN  IF secret # << >> /\ environment.encryptOk
               THEN { << key, secret >> }
               ELSE {}
    ELSE {}
\* envs[key] without the test of the secret
SecretEnvsNoSecretTest(arg, key, environment) ==
  IF arg.kind = "string" /\ arg.chars # << >>
    THEN LET secret == ResolvedSecret(arg, environment)
         IN  IF environment.encryptOk
               THEN { << key, Encrypted(secret) >> }
               ELSE {}
    ELSE {}
\* the entries a set-up task adds to envs for its secret argument
SecretEnvs(arg, key, environment) ==
  IF arg.kind = "string" /\ arg.chars # << >>
    THEN LET secret == ResolvedSecret(arg, environment)
         IN  IF secret # << >> /\ environment.encryptOk
               THEN { << key, Encrypted(secret) >> }
               ELSE {}
    ELSE {}

\* what a set-up sub-migration writes to appYmlConfig for one task
SetUpConfig(rule, config, task) ==
  CASE rule = "migrateSetUpTab" ->
         LET c1 == EnsureSection(config, "configureApp")
             c2 == [ c1 EXCEPT !.configureApp.tab = "localhost:53000" ]
             c3 == EnsureSection(c2, "deploy")
         IN  [ c3 EXCEPT !.deploy.tab = "53000" ]
    [] rule = "migrateSetUpBot" ->
         LET c1 == EnsureSection(config, "provision")
             c2 == [ c1 EXCEPT !.provision.bot = "botEndpoint/api/messages" ]
             c3 == EnsureSection(c2, "deploy")
         IN  [ c3 EXCEPT !.deploy.bot = TRUE ]
    [] rule = "migrateSetUpSSO" ->
         LET c1 == EnsureSection(config, "registerApp")
             c2 == [ c1 EXCEPT !.registerApp.aad = TRUE ]
             c3 == EnsureSection(c2, "configureApp")
             c4 == [ c3 EXCEPT !.configureApp.aad = TRUE ]
             c5 == EnsureSection(c4, "deploy")
         IN  [ c5 EXCEPT !.deploy.sso = TRUE ]
    [] rule = "migratePrepareManifest" ->
         LET c1 == EnsureSection(config, "registerApp")
             c2 == [ c1 EXCEPT !.registerApp.teamsApp = TRUE ]
             c3 == EnsureSection(c2, "configureApp")
         IN  [ c3 EXCEPT !.configureApp.teamsApp = "appPackagePath: undefined" ]
SetUpCommand(rule) ==
  CASE rule = "migrateSetUpTab" -> TaskCommand.setUpTab
    [] rule = "migrateSetUpBot" -> TaskCommand.setUpBot
    [] rule = "migrateSetUpSSO" -> TaskCommand.setUpSSO
    [] rule = "migratePrepareManifest" -> TaskCommand.prepareManifest
\* the envs a set-up sub-migration passes to updateLocalEnv for one task
SetUpEnvs(rule, migrationContext, task, environment) ==
  CASE rule = "migrateSetUpBot" ->
         updateLocalEnv(migrationContext,
                        SecretEnvs(task.args.secret, "SECRET_BOT_PASSWORD", environment))
    [] rule = "migrateSetUpSSO" ->
         updateLocalEnv(migrationContext,
                        SecretEnvs(task.args.secret, "SECRET_AAD_APP_CLIENT_SECRET",
                                   environment))
    [] OTHER -> migrationContext

\* the loop of migrateSetUpTab, migrateSetUpBot, migrateSetUpSSO and
\* migratePrepareManifest
migrateSetUpAt(rule, context, environment, index) ==
  LET task == context.tasks[index] IN
    IF ~IsTeamsfx(task, SetUpCommand(rule))
      THEN Continue(context, index + 1)
    ELSE IF ~IsStringLabel(task.label)
      THEN Continue(context, index + 1)
    ELSE
      LET written ==
            [ context EXCEPT
                !.appYmlConfig = SetUpConfig(rule, context.appYmlConfig, task),
                !.migrationContext =
                   SetUpEnvs(rule, context.migrationContext, task, environment) ]
          handled == handleProvisionAndDeploy(written, index, task.label)
      IN  Continue(handled.context, handled.index)
RECURSIVE migrateSetUpFrom(_, _, _, _)
migrateSetUpFrom(rule, context, environment, index) ==
  IF index > Len(context.tasks) THEN context
  ELSE LET iteration == migrateSetUpAt(rule, context, environment, index)
       IN  migrateSetUpFrom(rule, iteration.context, environment, iteration.index)
migrateSetUpTab(context) == migrateSetUpFrom("migrateSetUpTab", context, << >>, 1)
migrateSetUpBot(context, environment) ==
  migrateSetUpFrom("migrateSetUpBot", context, environment, 1)
migrateSetUpSSO(context, environment) ==
  migrateSetUpFrom("migrateSetUpSSO", context, environment, 1)
migratePrepareManifest(context) ==
  migrateSetUpFrom("migratePrepareManifest", context, << >>, 1)

\* the task with the new args, its type and command left as they were
generatePrerequisiteTaskKeepsCommand(task, context) ==
  [ task EXCEPT !.args = [ NoArgs EXCEPT !.prerequisites =
                             PrerequisiteArray(<< Prerequisite.nodejs,
                                                  Prerequisite.m365Account,
                                                  Prerequisite.portOccupancy >>) ] ]
\* the new task without the properties of the task it replaces
generatePrerequisiteTaskFresh(task, context) ==
  [ Task("", "teamsfx", "debug-check-prerequisites", NoDependsOn,
         [ NoArgs EXCEPT !.prerequisites =
             PrerequisiteArray(<< Prerequisite.nodejs, Prerequisite.m365Account,
                                  Prerequisite.portOccupancy >>) ])
      EXCEPT !.matchedBy = task.matchedBy ]
generatePrerequisiteTask(task, context) ==
  [ task EXCEPT !.type = "teamsfx",
                !.command = { "debug-check-prerequisites" },
                !.args = [ NoArgs EXCEPT !.prerequisites =
                             PrerequisiteArray(<< Prerequisite.nodejs,
                                                  Prerequisite.m365Account,
                                                  Prerequisite.portOccupancy >>) ] ]

\* deploy.tools = toolsArgs when toolsArgs has a key
SetTools(config, toolsArgs) ==
  IF toolsArgs # {}
    THEN [ EnsureSection(config, "deploy") EXCEPT !.deploy.tools = toolsArgs ]
    ELSE config

migrateValidateDependenciesAt(context, index) ==
  LET task == context.tasks[index] IN
    IF ~IsShell(task, validateDependenciesMarker)
      THEN Continue(context, index + 1)
    ELSE
      LET newTask == Matched(generatePrerequisiteTask(task, context),
                             "migrateValidateDependencies")
          settings == context.oldProjectSettings
          toolsArgs ==
            (IF includeTab(settings) THEN { "devCert" } ELSE {}) \cup
            (IF includeTab(settings) /\ includeSSO(settings) THEN { "dotnet" } ELSE {}) \cup
            (IF includeFunction(settings) THEN { "func", "dotnet" } ELSE {})
      IN  Continue([ context EXCEPT !.tasks = ReplaceAt(@, index, newTask),
                                    !.appYmlConfig = SetTools(@, toolsArgs) ], index + 1)
RECURSIVE migrateValidateDependenciesFrom(_, _)
migrateValidateDependenciesFrom(context, index) ==
  IF index > Len(context.tasks) THEN context
  ELSE LET iteration == migrateValidateDependenciesAt(context, index)
       IN  migrateValidateDependenciesFrom(iteration.context, iteration.index)
migrateValidateDependencies(context) == migrateValidateDependenciesFrom(context, 1)

migrateBackendExtensionsInstallAt(context, index) ==
  LET task == context.tasks[index] IN
    IF ~IsShell(task, backendExtensionsInstallMarker)
      THEN Continue(context, index + 1)
    ELSE
      LET config == [ EnsureSection(context.appYmlConfig, "deploy")
                        EXCEPT !.deploy.dotnetCommand = dotnetBuildExtensions ]
          relabelled == IF IsStringLabel(task.label)
                          THEN replaceInDependsOn(task.label, context.tasks, << >>)
                          ELSE context.tasks
      IN  Continue([ context EXCEPT !.tasks = RemoveAt(relabelled, index),
                                    !.appYmlConfig = config ], index)
RECURSIVE migrateBackendExtensionsInstallFrom(_, _)
migrateBackendExtensionsInstallFrom(context, index) ==
  IF index > Len(context.tasks) THEN context
  ELSE LET iteration == migrateBackendExtensionsInstallAt(context, index)
       IN  migrateBackendExtensionsInstallFrom(iteration.context, iteration.index)
migrateBackendExtensionsInstall(context) == migrateBackendExtensionsInstallFrom(context, 1)

\* the five sub-migrations that replace a label of the legacy extension
StartRules ==
  [ migrateFrontendStart |->
      [ legacy |-> frontendStartLabel, base |-> "Start frontend", script |-> "run.tab.js" ],
    migrateAuthStart |->
      [ legacy |-> authStartLabel, base |-> "Start auth", script |-> "run.auth.js" ],
    migrateBotStart |->
      [ legacy |-> botStartLabel, base |-> "Start bot", script |-> "run.bot.js" ],
    migrateBackendWatch |->
      [ legacy |-> backendWatchLabel, base |-> "Watch backend", script |-> "" ],
    migrateBackendStart |->
      [ legacy |-> backendStartLabel, base |-> "Start backend", script |-> "run.api.js" ] ]
StartTask(rule, lbl) ==
  CASE rule = "migrateFrontendStart" -> startFrontendTask(lbl)
    [] rule = "migrateAuthStart" -> startAuthTask(lbl)
    [] rule = "migrateBotStart" -> startBotTask(lbl)
    [] rule = "migrateBackendWatch" -> watchBackendTask(lbl)
    [] rule = "migrateBackendStart" -> startBackendTask(lbl)

migrateStartAt(rule, context, index) ==
  LET task == context.tasks[index] IN
    IF References(task.dependsOn, StartRules[rule].legacy)
      THEN LET newLabel == generateLabel(StartRules[rule].base, getLabels(context.tasks))
               marked == ReplaceAt(context.tasks, index, Matched(task, rule))
               inserted == InsertAt(marked, index + 1, StartTask(rule, newLabel))
               relabelled == replaceInDependsOn(StartRules[rule].legacy, inserted,
                                                << newLabel >>)
           IN  IF StartRules[rule].script = ""
                 THEN Break([ context EXCEPT !.tasks = relabelled ], index)
                 ELSE Break([ context EXCEPT
                                !.tasks = relabelled,
                                !.appYmlConfig = PushRunUtilsInstall(@),
                                !.migrationContext =
                                   saveRunScript(@, StartRules[rule].script) ], index)
      ELSE Continue(context, index + 1)
RECURSIVE migrateStartFrom(_, _, _)
migrateStartFrom(rule, context, index) ==
  IF index > Len(context.tasks) THEN context
  ELSE LET iteration == migrateStartAt(rule, context, index)
       IN  IF iteration.break THEN iteration.context
           ELSE migrateStartFrom(rule, iteration.context, iteration.index)
migrateFrontendStart(context) == migrateStartFrom("migrateFrontendStart", context, 1)
migrateAuthStart(context) == migrateStartFrom("migrateAuthStart", context, 1)
migrateBotStart(context) == migrateStartFrom("migrateBotStart", context, 1)
migrateBackendWatch(context) == migrateStartFrom("migrateBackendWatch", context, 1)
migrateBackendStart(context) == migrateStartFrom("migrateBackendStart", context, 1)

\* what migrateValidateLocalPrerequisites writes to the deploy section
ValidateLocalPrerequisitesConfig(config, settings) ==
  LET toolsArgs ==
        (IF includeTab(settings) THEN { "devCert" } ELSE {}) \cup
        (IF includeFunction(settings) THEN { "func", "dotnet" } ELSE {}) \cup
        (IF includeBot(settings) /\ includeFuncHostedBot(settings) THEN { "func" } ELSE {})
      npmCommands ==
        (IF includeTab(settings)
           THEN << NpmCommand(<< "install", defaultNpmInstallArg >>, << ".", "/tabs" >>) >>
           ELSE << >>) \o
        (IF includeFunction(settings)
           THEN << NpmCommand(<< "install", defaultNpmInstallArg >>, << ".", "/api" >>) >>
           ELSE << >>) \o
        (IF includeBot(settings)
           THEN << NpmCommand(<< "install", defaultNpmInstallArg >>, << ".", "/bot" >>) >>
           ELSE << >>)
      dotnetCommand == IF includeFunction(settings) THEN dotnetBuildExtensions ELSE ""
  IN  IF toolsArgs # {} \/ npmCommands # << >> \/ dotnetCommand # ""
        THEN LET c1 == EnsureSection(config, "deploy")
                 c2 == IF toolsArgs # {} THEN [ c1 EXCEPT !.deploy.tools = toolsArgs ] ELSE c1
                 c3 == IF npmCommands # << >>
                         THEN [ c2 EXCEPT !.deploy.npmCommands = npmCommands ]
                         ELSE c2
             IN  [ c3 EXCEPT !.deploy.dotnetCommand = dotnetCommand ]
        ELSE config

migrateValidateLocalPrerequisitesAt(context, index) ==
  LET task == context.tasks[index] IN
    IF ~IsShell(task, validateLocalPrerequisitesMarker)
      THEN Continue(context, index + 1)
    ELSE
      LET newTask == Matched(generatePrerequisiteTask(task, context),
                             "migrateValidateLocalPrerequisites")
      IN  Continue(
            [ context EXCEPT
                !.tasks = ReplaceAt(@, index, newTask),
                !.appYmlConfig =
                   ValidateLocalPrerequisitesConfig(@, context.oldProjectSettings) ],
            index + 1)
RECURSIVE migrateValidateLocalPrerequisitesFrom(_, _)
migrateValidateLocalPrerequisitesFrom(context, index) ==
  IF index > Len(context.tasks) THEN context
  ELSE LET iteration == migrateValidateLocalPrerequisitesAt(context, index)
       IN  migrateValidateLocalPrerequisitesFrom(iteration.context, iteration.index)
migrateValidateLocalPrerequisites(context) ==
  migrateValidateLocalPrerequisitesFrom(context, 1)

\* what migratePreDebugCheck writes to appYmlConfig
\* the deploy fields written whether or not the task is found
PreDebugCheckConfigAlways(config, settings, taskList) ==
  LET c1 == EnsureSection(config, "registerApp")
      c2 == [ c1 EXCEPT !.registerApp.aad = IF includeSSO(settings) THEN TRUE ELSE @,
                        !.registerApp.teamsApp = TRUE ]
      c3 == IF includeBot(settings)
              THEN [ EnsureSection(c2, "provision")
                       EXCEPT !.provision.bot = "botEndpoint/api/messages" ]
              ELSE c2
      c4 == EnsureSection(c3, "configureApp")
      c5 == [ c4 EXCEPT
                !.configureApp.tab = IF includeTab(settings) THEN "localhost:53000" ELSE @,
                !.configureApp.aad = IF includeSSO(settings) THEN TRUE ELSE @,
                !.configureApp.teamsApp = IF @ = "" THEN "{}" ELSE @ ]
      c6 == EnsureSection(c5, "deploy")
  IN  [ c6 EXCEPT
          !.deploy.tab = IF includeTab(settings) THEN "53000" ELSE @,
          !.deploy.bot = IF includeBot(settings) THEN TRUE ELSE @,
          !.deploy.sso = IF includeSSO(settings) THEN TRUE ELSE @ ]
PreDebugCheckConfig(config, settings, taskList) ==
  LET c1 == EnsureSection(config, "registerApp")
      c2 == [ c1 EXCEPT !.registerApp.aad = IF includeSSO(settings) THEN TRUE ELSE @,
                        !.registerApp.teamsApp = TRUE ]
      c3 == IF includeBot(settings)
              THEN [ EnsureSection(c2, "provision")
                       EXCEPT !.provision.bot = "botEndpoint/api/messages" ]
              ELSE c2
      c4 == EnsureSection(c3, "configureApp")
      c5 == [ c4 EXCEPT
                !.configureApp.tab = IF includeTab(settings) THEN "localhost:53000" ELSE @,
                !.configureApp.aad = IF includeSSO(settings) THEN TRUE ELSE @,
                !.configureApp.teamsApp = IF @ = "" THEN "{}" ELSE @ ]
      validateLocalPrerequisitesTask ==
        \E i \in DOMAIN taskList : IsShell(taskList[i], validateLocalPrerequisitesMarker)
  IN  IF validateLocalPrerequisitesTask
        THEN LET c6 == EnsureSection(c5, "deploy")
             IN  [ c6 EXCEPT
                     !.deploy.tab = IF includeTab(settings) THEN "53000" ELSE @,
                     !.deploy.bot = IF includeBot(settings) THEN TRUE ELSE @,
                     !.deploy.sso = IF includeSSO(settings) THEN TRUE ELSE @ ]
        ELSE c5

migratePreDebugCheckAt(context, index) ==
  LET task == context.tasks[index] IN
    IF ~IsShell(task, preDebugCheckMarker)
      THEN Continue(context, index + 1)
    ELSE
      LET existingLabels == getLabels(context.tasks)
          createResourcesLabel == generateLabel("Create resources", existingLabels)
          setUpLocalProjectsLabel == generateLabel("Set up local projects", existingLabels)
          newTask ==
            Matched([ task EXCEPT
                        !.dependsOn = ArrayDependsOn(<< createResourcesLabel,
                                                        setUpLocalProjectsLabel >>),
                        !.type = "", !.command = {} ],
                    "migratePreDebugCheck")
          inserted ==
            InsertAt(InsertAt(ReplaceAt(context.tasks, index, newTask), index + 1,
                              createResourcesTask(createResourcesLabel)),
                     index + 2, setUpLocalProjectsTask(setUpLocalProjectsLabel))
      IN  Break([ context EXCEPT
                    !.tasks = inserted,
                    !.appYmlConfig =
                       PreDebugCheckConfig(@, context.oldProjectSettings, context.tasks) ],
                index)
RECURSIVE migratePreDebugCheckFrom(_, _)
migratePreDebugCheckFrom(context, index) ==
  IF index > Len(context.tasks) THEN context
  ELSE LET iteration == migratePreDebugCheckAt(context, index)
       IN  IF iteration.break THEN iteration.context
           ELSE migratePreDebugCheckFrom(iteration.context, iteration.index)
migratePreDebugCheck(context) == migratePreDebugCheckFrom(context, 1)

\* generateLocalTunnelTask without a task, and with the task it keeps
generateLocalTunnelTask(context) ==
  Synthesized(TaskLabel.StartLocalTunnel, "teamsfx", TaskCommand.startLocalTunnel,
              "generateLocalTunnelTask")
generateLocalTunnelTaskFrom(context, task) ==
  [ task EXCEPT !.type = "teamsfx", !.command = { TaskCommand.startLocalTunnel },
                !.args = NoArgs ]

migrateNgrokStartTaskAt(context, index) ==
  LET task == context.tasks[index] IN
    IF References(task.dependsOn, ngrokStartLabel)
      THEN Break([ context EXCEPT !.tasks =
                     InsertAt(ReplaceAt(@, index, Matched(task, "migrateNgrokStartTask")),
                              index + 1, generateLocalTunnelTask(context)) ], index)
      ELSE Continue(context, index + 1)
RECURSIVE InsertLocalTunnelFrom(_, _)
InsertLocalTunnelFrom(context, index) ==
  IF index > Len(context.tasks) THEN context.tasks
  ELSE LET iteration == migrateNgrokStartTaskAt(context, index)
       IN  IF iteration.break THEN iteration.context.tasks
           ELSE InsertLocalTunnelFrom(iteration.context, iteration.index)
\* the replaceInDependsOn after the loop
migrateNgrokStartTaskAfterLoop(context) ==
  [ context EXCEPT !.tasks =
      replaceInDependsOn(ngrokStartLabel, @, << TaskLabel.StartLocalTunnel >>) ]
migrateNgrokStartTask(context) ==
  migrateNgrokStartTaskAfterLoop(
    [ context EXCEPT !.tasks = InsertLocalTunnelFrom(context, 1) ])

migrateNgrokStartCommandAt(context, index) ==
  IF IsTeamsfx(context.tasks[index], "ngrok start")
    THEN Continue([ context EXCEPT !.tasks[index] =
                      Matched(generateLocalTunnelTaskFrom(context, @),
                              "migrateNgrokStartCommand") ], index + 1)
    ELSE Continue(context, index + 1)
RECURSIVE migrateNgrokStartCommandFrom(_, _)
migrateNgrokStartCommandFrom(context, index) ==
  IF index > Len(context.tasks) THEN context
  ELSE LET iteration == migrateNgrokStartCommandAt(context, index)
       IN  migrateNgrokStartCommandFrom(iteration.context, iteration.index)
migrateNgrokStartCommand(context) == migrateNgrokStartCommandFrom(context, 1)

\* The order in which the migrator runs the sub-migrations: prerequisite
\* checks, tunnel, npm install, the set-up tasks, the start and watch tasks,
\* then the validate and pre-debug-check tasks.
debugSubMigrations ==
  << "migrateTransparentPrerequisite",
     "migrateTransparentLocalTunnel", "migrateNgrokStartTask", "migrateNgrokStartCommand",
     "migrateTransparentNpmInstall", "migrateBackendExtensionsInstall",
     "migrateSetUpTab", "migrateSetUpBot", "migrateSetUpSSO", "migratePrepareManifest",
     "migrateFrontendStart", "migrateAuthStart", "migrateBotStart",
     "migrateBackendWatch", "migrateBackendStart",
     "migrateValidateDependencies", "migratePreDebugCheck",
     "migrateValidateLocalPrerequisites" >>

\* the tasks a tasks.json is drawn from, in the order they are listed
setUpTabLabel == "Set up tab"
setUpBotLabel == "Set up bot"
npmInstallLabel == "Install npm packages"
npmInstallBotLabel == "Install bot packages"
validateDependenciesLabel == "dependency check"
botPasswordVariable == << "B" >>
TaskPool ==
  << Task("Validate & install prerequisites", "teamsfx", TaskCommand.checkPrerequisites,
          NoDependsOn,
          [ NoArgs EXCEPT !.prerequisites =
              PrerequisiteArray(<< Prerequisite.nodejs, Prerequisite.func,
                                   Prerequisite.devCert >>) ]),
     Task(npmInstallLabel, "teamsfx", TaskCommand.npmInstall, NoDependsOn,
          [ NoArgs EXCEPT !.projects =
              << Project(StringValue(<< workspaceFolder, "/tabs" >>),
                         StringValue(<< "--force" >>)),
                 NotAnObject,
                 Project(NoValue, StringValue(<< "--force" >>)),
                 Project(StringValue(<< workspaceFolder, "/api" >>),
                         ArrayValue(<< "--no-audit", "--force" >>)) >> ]),
     Task(npmInstallBotLabel, "teamsfx", TaskCommand.npmInstall, NoDependsOn,
          [ NoArgs EXCEPT !.projects =
              << Project(StringValue(<< workspaceFolder, "/bot" >>), NoValue) >> ]),
     Task("Install All", "", "",
          ArrayDependsOn(<< npmInstallLabel, npmInstallBotLabel, npmInstallLabel,
                            validateDependenciesLabel >>),
          NoArgs),
     Task(TaskLabel.StartLocalTunnel, "teamsfx", TaskCommand.startLocalTunnel,
          NoDependsOn, NoArgs),
     Task(setUpTabLabel, "teamsfx", TaskCommand.setUpTab, NoDependsOn, NoArgs),
     Task(setUpBotLabel, "teamsfx", TaskCommand.setUpBot, NoDependsOn,
          [ NoArgs EXCEPT !.secret = StringArg(<< "p", "w" >>) ]),
     Task("Set up SSO", "teamsfx", TaskCommand.setUpSSO, NoDependsOn,
          [ NoArgs EXCEPT !.secret =
              StringArg(envReferencePrefix \o botPasswordVariable \o << "}" >>) ]),
     Task("Build & upload Teams manifest", "teamsfx", TaskCommand.prepareManifest,
          NoDependsOn, NoArgs),
     Task(validateDependenciesLabel, "shell", validateDependenciesMarker, NoDependsOn, NoArgs),
     Task("backend extensions install", "shell", backendExtensionsInstallMarker,
          NoDependsOn, NoArgs),
     Task("validate local prerequisites", "shell", validateLocalPrerequisitesMarker,
          NoDependsOn, NoArgs),
     Task("prepare local environment", "shell", preDebugCheckMarker, NoDependsOn, NoArgs),
     Task("start ngrok", "teamsfx", "ngrok start", NoDependsOn, NoArgs),
     Task("Start Frontend", "", "",
          ArrayDependsOn(<< frontendStartLabel, authStartLabel >>), NoArgs),
     Task("Start Bot", "", "",
          ArrayDependsOn(<< ngrokStartLabel, botStartLabel >>), NoArgs),
     Task("Start Backend", "", "",
          ArrayDependsOn(<< backendStartLabel, backendWatchLabel >>), NoArgs),
     Task("Pre Debug Check & Start All", "", "",
          ArrayDependsOn(<< npmInstallLabel, setUpTabLabel, setUpBotLabel >>), NoArgs),
     Task("Start All", "", "",
          ArrayDependsOn(<< frontendStartLabel, frontendStartLabel >>), NoArgs),
     Task("Start frontend", "shell", "npm run start", NoDependsOn, NoArgs),
     [ Task("validate", "shell", validateDependenciesMarker, NoDependsOn, NoArgs)
         EXCEPT !.command = { validateDependenciesMarker,
                              validateLocalPrerequisitesMarker } ] >>

\* the capabilities of the legacy project
ProjectCapabilities == { { "tab", "sso", "function" }, { "bot", "funcHostedBot" } }

RECURSIVE FromPool(_)
FromPool(indices) ==
  IF indices = {} THEN << >>
  ELSE LET first == CHOOSE i \in indices : \A k \in indices : i <= k
       IN  << TaskPool[first] >> \o FromPool(indices \ { first })
\* the subsets of a set with up to n elements
RECURSIVE SubsetsUpTo(_, _)
SubsetsUpTo(S, n) ==
  IF n = 0 THEN { {} }
  ELSE LET smaller == SubsetsUpTo(S, n - 1)
       IN  smaller \cup { t \cup { x } : t \in smaller, x \in S }
DebugTaskLists ==
  { FromPool(indices) : indices \in SubsetsUpTo(DOMAIN TaskPool, MaxDebugTasks) }

DebugContext(taskList, settings) ==
  [ tasks |-> taskList,
    appYmlConfig |-> NoSections,
    generatedLabels |-> << >>,
    oldProjectSettings |-> settings,
    migrationContext |-> [ scripts |-> << >>, localEnv |-> << >> ] ]

DebugInit ==
  /\ PipelineIdle
  /\ phase = "debug"
  /\ \E taskList \in DebugTaskLists, settings \in ProjectCapabilities :
       debugContext = DebugContext(taskList, settings)
  /\ debugInitial = debugContext
  /\ debugStep = 0
  /\ debugEnvironment = [ processEnv |-> [ n \in { botPasswordVariable } |-> << "s" >> ],
                          encryptOk |-> TRUE ]
  /\ SettingsIdle /\ StatesIdle /\ LaunchIdle /\ DependsOnIdle
  /\ LoopIdle /\ ScaffoldIdle

\* the sub-migration run at this step, and the step it ends with
DebugRuns(name) ==
  /\ phase \in { "debug", "secret" }
  /\ debugStep < Len(debugSubMigrations)
  /\ debugSubMigrations[debugStep + 1] = name
DebugDone(context) ==
  /\ debugContext' = context
  /\ debugStep' = debugStep + 1
  /\ UNCHANGED <<pipelineVars, phase, debugInitial, debugEnvironment, settingsVars,
                 statesVars, launchVars, dependsOnVars, loopVars, scaffoldVars>>

RunMigrateTransparentPrerequisite ==
  /\ DebugRuns("migrateTransparentPrerequisite")
  /\ DebugDone(migrateTransparentPrerequisite(debugContext))
RunMigrateTransparentLocalTunnel ==
  /\ DebugRuns("migrateTransparentLocalTunnel")
  /\ DebugDone(migrateTransparentLocalTunnel(debugContext))
RunMigrateNgrokStartTask ==
  /\ DebugRuns("migrateNgrokStartTask")
  /\ DebugDone(migrateNgrokStartTask(debugContext))
RunMigrateNgrokStartCommand ==
  /\ DebugRuns("migrateNgrokStartCommand")
  /\ DebugDone(migrateNgrokStartCommand(debugContext))
RunMigrateTransparentNpmInstall ==
  /\ DebugRuns("migrateTransparentNpmInstall")
  /\ DebugDone(migrateTransparentNpmInstall(debugContext))
RunMigrateBackendExtensionsInstall ==
  /\ DebugRuns("migrateBackendExtensionsInstall")
  /\ DebugDone(migrateBackendExtensionsInstall(debugContext))
RunMigrateSetUpTab ==
  /\ DebugRuns("migrateSetUpTab")
  /\ DebugDone(migrateSetUpTab(debugContext))
RunMigrateSetUpBot ==
  /\ DebugRuns("migrateSetUpBot")
  /\ DebugDone(migrateSetUpBot(debugContext, debugEnvironment))
RunMigrateSetUpSSO ==
  /\ DebugRuns("migrateSetUpSSO")
  /\ DebugDone(migrateSetUpSSO(debugContext, debugEnvironment))
RunMigratePrepareManifest ==
  /\ DebugRuns("migratePrepareManifest")
  /\ DebugDone(migratePrepareManifest(debugContext))
RunMigrateFrontendStart ==
  /\ DebugRuns("migrateFrontendStart")
  /\ DebugDone(migrateFrontendStart(debugContext))
RunMigrateAuthStart ==
  /\ DebugRuns("migrateAuthStart")
  /\ DebugDone(migrateAuthStart(debugContext))
RunMigrateBotStart ==
  /\ DebugRuns("migrateBotStart")
  /\ DebugDone(migrateBotStart(debugContext))
RunMigrateBackendWatch ==
  /\ DebugRuns("migrateBackendWatch")
  /\ DebugDone(migrateBackendWatch(debugContext))
RunMigrateBackendStart ==
  /\ DebugRuns("migrateBackendStart")
  /\ DebugDone(migrateBackendStart(debugContext))
RunMigrateValidateDependencies ==
  /\ DebugRuns("migrateValidateDependencies")
  /\ DebugDone(migrateValidateDependencies(debugContext))
RunMigratePreDebugCheck ==
  /\ DebugRuns("migratePreDebugCheck")
  /\ DebugDone(migratePreDebugCheck(debugContext))
RunMigrateValidateLocalPrerequisites ==
  /\ DebugRuns("migrateValidateLocalPrerequisites")
  /\ DebugDone(migrateValidateLocalPrerequisites(debugContext))

DebugNext ==
  \/ RunMigrateTransparentPrerequisite
  \/ RunMigrateTransparentLocalTunnel
  \/ RunMigrateNgrokStartTask
  \/ RunMigrateNgrokStartCommand
  \/ RunMigrateTransparentNpmInstall
  \/ RunMigrateBackendExtensionsInstall
  \/ RunMigrateSetUpTab
  \/ RunMigrateSetUpBot
  \/ RunMigrateSetUpSSO
  \/ RunMigratePrepareManifest
  \/ RunMigrateFrontendStart
  \/ RunMigrateAuthStart
  \/ RunMigrateBotStart
  \/ RunMigrateBackendWatch
  \/ RunMigrateBackendStart
  \/ RunMigrateValidateDependencies
  \/ RunMigratePreDebugCheck
  \/ RunMigrateValidateLocalPrerequisites
DebugSpec == DebugInit /\ [][DebugNext]_vars

\* the tasks of a list that a factory built
MadeBy(taskList, maker) == { i \in DOMAIN taskList : taskList[i].madeBy = maker }

\* C22: within one run of the sub-pipeline the task list holds at most one
\* task built by createResourcesTask and at most one built by
\* setUpLocalProjectsTask, however many original tasks needed them.
C22_AtMostOneHelperTask ==
  phase = "debug" =>
    /\ Cardinality(MadeBy(debugContext.tasks, "createResourcesTask")) <= 1
    /\ Cardinality(MadeBy(debugContext.tasks, "setUpLocalProjectsTask")) <= 1

\* C22, within the set-up sub-migrations: the helper tasks that
\* handleProvisionAndDeploy inserts are inserted once, and generatedLabels
\* holds their two labels.
C22_SetUpTasksShareHelpers ==
  (phase = "debug" /\ \A k \in 1..debugStep : debugSubMigrations[k] # "migratePreDebugCheck") =>
    /\ Cardinality(MadeBy(debugContext.tasks, "createResourcesTask")) <= 1
    /\ Cardinality(MadeBy(debugContext.tasks, "setUpLocalProjectsTask")) <= 1
    /\ Len(debugContext.generatedLabels) \in { 0, 2 }

\* no two tasks of the list have the same label
LabelsDistinct(taskList) ==
  \A i, j \in DOMAIN taskList : i # j => taskList[i].label # taskList[j].label

\* C23: the labels of the task list, pairwise distinct before the
\* sub-pipeline, are pairwise distinct after every sub-migration: no
\* synthesized task is inserted with the label of a task already in the list.
C23_LabelsStayDistinct ==
  (phase = "debug" /\ LabelsDistinct(debugInitial.tasks)) =>
    LabelsDistinct(debugContext.tasks)

\* C23, for the tasks whose label comes from generateLabel: none of them has
\* the label of another task.
C23_GeneratedLabelsDistinct ==
  phase = "debug" =>
    \A i, j \in DOMAIN debugContext.tasks :
      (/\ i # j
       /\ debugContext.tasks[i].madeBy \notin { "", "generateLocalTunnelTask" }) =>
        debugContext.tasks[i].label # debugContext.tasks[j].label

\* The secret of a set-up task: migrateSetUpBot and migrateSetUpSSO on a
\* list that starts with the set-up task, for each form of its secret
\* argument.
setVariable == << "B" >>
emptyVariable == << "E" >>
unsetVariable == << "U" >>
EnvReference(name) == StringArg(envReferencePrefix \o name \o << "}" >>)
SecretArgs ==
  { MissingArg, NotStringArg, StringArg(<< >>), StringArg(<< "p", "w" >>),
    EnvReference(setVariable), EnvReference(emptyVariable), EnvReference(unsetVariable),
    EnvReference(<< >>) }
SecretEnvironments ==
  { [ processEnv |-> (setVariable :> << "s" >>) @@ (emptyVariable :> << >>),
      encryptOk |-> ok ] : ok \in BOOLEAN }
setUpLabel == "Set up"
SetUpTask(lbl, setUp, secret) ==
  Task(lbl, "teamsfx", setUp, NoDependsOn, [ NoArgs EXCEPT !.secret = secret ])
\* the tasks that follow the set-up task
SecretDependents(setUp) ==
  { << >>,
    << Task("Start", "", "", StringDependsOn(setUpLabel), NoArgs) >>,
    << Task("Start", "", "", ArrayDependsOn(<< "Build", setUpLabel >>), NoArgs) >>,
    << SetUpTask("Set up again", setUp, StringArg(<< "p", "w" >>)),
       Task("Start", "", "", ArrayDependsOn(<< setUpLabel, "Set up again" >>), NoArgs) >> }

\* the number of sub-migrations run before the named one
StepBefore(name) ==
  CHOOSE k \in 0..(Len(debugSubMigrations) - 1) : debugSubMigrations[k + 1] = name

SecretInit ==
  /\ PipelineIdle
  /\ phase = "secret"
  /\ \E setUp \in { TaskCommand.setUpBot, TaskCommand.setUpSSO }, secret \in SecretArgs :
       \E dependents \in SecretDependents(setUp) :
         debugContext =
           DebugContext(<< SetUpTask(setUpLabel, setUp, secret) >> \o dependents,
                        { "bot", "sso" })
  /\ debugInitial = debugContext
  /\ debugStep = StepBefore("migrateSetUpBot")
  /\ debugEnvironment \in SecretEnvironments
  /\ SettingsIdle /\ StatesIdle /\ LaunchIdle /\ DependsOnIdle
  /\ LoopIdle /\ ScaffoldIdle

SecretNext == RunMigrateSetUpBot \/ RunMigrateSetUpSSO
SecretSpec == SecretInit /\ [][SecretNext]_vars

\* the set-up task of the run, the key of its secret, and the envs that its
\* sub-migration has passed to updateLocalEnv for it
SecretTask == debugInitial.tasks[1]
SecretKey ==
  IF IsTeamsfx(SecretTask, TaskCommand.setUpBot)
    THEN "SECRET_BOT_PASSWORD" ELSE "SECRET_AAD_APP_CLIENT_SECRET"
SecretRuleDone ==
  /\ phase = "secret"
  /\ debugStep > StepBefore(IF IsTeamsfx(SecretTask, TaskCommand.setUpBot)
                              THEN "migrateSetUpBot" ELSE "migrateSetUpSSO")
EmittedEnvs == debugContext.migrationContext.localEnv[1]
\* the secret argument is a literal string, or a reference to a variable
\* that is set; and the plaintext it stands for
SecretPresent ==
  /\ SecretTask.args.secret.kind = "string"
  /\ IsEnvReference(SecretTask.args.secret.chars) =>
       EnvReferenceName(SecretTask.args.secret.chars) \in DOMAIN debugEnvironment.processEnv
SecretPlaintext == ResolvedSecret(SecretTask.args.secret, debugEnvironment)
\* the secret argument is missing, not a string, or a reference to a
\* variable that is not set
SecretAbsent ==
  \/ SecretTask.args.secret.kind \in { "missing", "notString" }
  \/ /\ SecretTask.args.secret.kind = "string"
     /\ IsEnvReference(SecretTask.args.secret.chars)
     /\ EnvReferenceName(SecretTask.args.secret.chars) \notin
          DOMAIN debugEnvironment.processEnv
\* envs holds the key with the encrypted secret, and nowhere the plaintext
SecretEmittedEncrypted ==
  /\ Len(debugContext.migrationContext.localEnv) >= 1
  /\ << SecretKey, Encrypted(SecretPlaintext) >> \in EmittedEnvs
  /\ \A entry \in EmittedEnvs : entry[1] = SecretKey => entry[2] = Encrypted(SecretPlaintext)
  /\ \A entry \in EmittedEnvs : entry[2] # SecretPlaintext

C24_EmptyLiteralOmitted ==
  /\ SecretRuleDone
  /\ SecretTask.args.secret = StringArg(<< >>)
  /\ EmittedEnvs = {}
C24_EncryptFailureOmitted ==
  /\ SecretRuleDone /\ SecretPresent /\ SecretPlaintext # << >>
  /\ ~debugEnvironment.encryptOk
  /\ EmittedEnvs = {}

\* the task list the sub-migrations give when the secret is a literal
\* string instead
WithLiteralSecret ==
  [ debugInitial EXCEPT !.tasks[1].args.secret = StringArg(<< "p", "w" >>) ]
TasksWithLiteralSecret ==
  migrateSetUpSSO(migrateSetUpBot(WithLiteralSecret, debugEnvironment),
                  debugEnvironment).tasks

\* C25: when the secret argument is missing, not a string, or a reference to
\* a variable that is not set, the envs passed to updateLocalEnv have no
\* entry for the key, and the sub-migration completes: the task is removed
\* and its dependents refer to the helper tasks, the list being the one a
\* task with a secret gives.
C25_AbsentSecretOmitted ==
  (SecretRuleDone /\ SecretAbsent) =>
    /\ Len(debugContext.migrationContext.localEnv) >= 1
    /\ \A entry \in EmittedEnvs : entry[1] # SecretKey
    /\ \A i \in DOMAIN debugContext.tasks :
         /\ debugContext.tasks[i].label # SecretTask.label
         /\ ~References(debugContext.tasks[i].dependsOn, SecretTask.label)
    /\ \A i \in DOMAIN debugContext.tasks :
         debugContext.tasks[i].label = "Start" =>
           /\ References(debugContext.tasks[i].dependsOn, "Create resources")
           /\ References(debugContext.tasks[i].dependsOn, "Set up local projects")
    /\ debugContext.tasks = TasksWithLiteralSecret
C25_Witness ==
  /\ SecretRuleDone /\ SecretAbsent
  /\ SecretTask.args.secret = EnvReference(unsetVariable)
  /\ \E i \in DOMAIN debugContext.tasks : debugContext.tasks[i].label = "Start"

\* the sub-migrations that recognise a task by its type and command, and
\* those that recognise it by a label in its dependsOn
TypeCommandRules ==
  { "migrateTransparentPrerequisite", "migrateTransparentLocalTunnel",
    "migrateTransparentNpmInstall", "migrateSetUpTab", "migrateSetUpBot",
    "migrateSetUpSSO", "migratePrepareManifest", "migrateValidateDependencies",
    "migrateBackendExtensionsInstall", "migrateValidateLocalPrerequisites",
    "migratePreDebugCheck", "migrateNgrokStartCommand" }
DependsOnRules ==
  { "migrateFrontendStart", "migrateAuthStart", "migrateBotStart", "migrateBackendWatch",
    "migrateBackendStart", "migrateNgrokStartTask" }

C26_TwoDependsOnRulesMatch ==
  /\ phase = "debug"
  /\ \E i \in DOMAIN debugContext.tasks :
       { "migrateFrontendStart", "migrateAuthStart" } \subseteq
         debugContext.tasks[i].matchedBy

\* C27: each section of appYmlConfig is absent until a sub-migration first
\* writes to it, and once present it is never assigned again or removed:
\* later sub-migrations write fields of the section that is there.
C27_SectionsAssignedOnce ==
  /\ [](phase = "debug" =>
         \A section \in SectionNames :
           /\ debugContext.appYmlConfig[section].assigned <= 1
           /\ debugContext.appYmlConfig[section].present <=>
                debugContext.appYmlConfig[section].assigned = 1
           /\ debugStep = 0 => ~debugContext.appYmlConfig[section].present)
  /\ [][phase = "debug" =>
         \A section \in SectionNames :
           debugContext.appYmlConfig[section].present =>
             /\ debugContext'.appYmlConfig[section].present
             /\ debugContext'.appYmlConfig[section].assigned =
                  debugContext.appYmlConfig[section].assigned]_vars
\* the deploy section after two sub-migrations have written to it
C27_Witness ==
  /\ phase = "debug"
  /\ debugContext.appYmlConfig.deploy.assigned = 1
  /\ debugContext.appYmlConfig.deploy.tab # ""
  /\ debugContext.appYmlConfig.deploy.bot
  /\ debugContext.appYmlConfig.deploy.npmCommands # << >>

\* what a step keeps of the deploy section
NpmCommandsKept(before, after) ==
  \A i \in DOMAIN before.deploy.npmCommands :
    Includes(after.deploy.npmCommands, before.deploy.npmCommands[i])
ToolsKept(before, after) == before.deploy.tools \subseteq after.deploy.tools
DotnetCommandKept(before, after) ==
  before.deploy.dotnetCommand # "" => after.deploy.dotnetCommand = before.deploy.dotnetCommand

\* C28: an entry that a sub-migration has contributed to the deploy section
\* (an element of npmCommands, a flag of tools, dotnetCommand) is still there
\* after every later sub-migration of the run.
C28_ContributionsKept ==
  [][phase = "debug" =>
       /\ NpmCommandsKept(debugContext.appYmlConfig, debugContext'.appYmlConfig)
       /\ ToolsKept(debugContext.appYmlConfig, debugContext'.appYmlConfig)
       /\ DotnetCommandKept(debugContext.appYmlConfig, debugContext'.appYmlConfig)]_vars
\* C28, one kind of entry at a time
C28_NpmCommandsKept ==
  [][phase = "debug" =>
       NpmCommandsKept(debugContext.appYmlConfig, debugContext'.appYmlConfig)]_vars
C28_ToolsKept ==
  [][phase = "debug" =>
       ToolsKept(debugContext.appYmlConfig, debugContext'.appYmlConfig)]_vars
C28_DotnetCommandKept ==
  [][phase = "debug" =>
       DotnetCommandKept(debugContext.appYmlConfig, debugContext'.appYmlConfig)]_vars

\* the sub-migrations that write a script, and what one of them has found
\* and done in the step from before to after
ScriptRules ==
  { "migrateFrontendStart", "migrateAuthStart", "migrateBotStart", "migrateBackendStart" }
Referencing(taskList, v) ==
  { i \in DOMAIN taskList : References(taskList[i].dependsOn, v) }
FirstOf(indices) == CHOOSE i \in indices : \A k \in indices : i <= k
\* nothing is written or inserted when no task refers to the legacy label
StartRuleIdle(rule, before, after) ==
  /\ after.tasks = before.tasks
  /\ after.migrationContext.scripts = before.migrationContext.scripts
\* one task inserted after the first task that refers to the legacy label,
\* the script written once
StartRuleInserts(rule, before, after) ==
  LET first == FirstOf(Referencing(before.tasks, StartRules[rule].legacy)) IN
  /\ Len(after.tasks) = Len(before.tasks) + 1
  /\ after.tasks[first + 1].madeBy = StartTask(rule, "").madeBy
  /\ after.tasks[first + 1].label \notin getLabels(before.tasks)
  /\ \A i \in DOMAIN before.tasks :
       after.tasks[IF i <= first THEN i ELSE i + 1].label = before.tasks[i].label
  /\ after.migrationContext.scripts =
       Append(before.migrationContext.scripts, StartRules[rule].script)
\* every reference to the legacy label is a reference to the new label
StartRuleRelabels(rule, before, after) ==
  LET first == FirstOf(Referencing(before.tasks, StartRules[rule].legacy)) IN
  /\ Referencing(after.tasks, StartRules[rule].legacy) = {}
  /\ \A i \in Referencing(before.tasks, StartRules[rule].legacy) :
       References(after.tasks[IF i <= first THEN i ELSE i + 1].dependsOn,
                  after.tasks[first + 1].label)
StartRuleStep(rule) ==
  /\ phase = "debug"
  /\ debugStep = StepBefore(rule)
  /\ debugStep' = debugStep + 1

\* C30: migrateFrontendStart, migrateAuthStart, migrateBotStart and
\* migrateBackendStart write their script and insert their task if and only
\* if some dependsOn refers to the legacy label; then one task is inserted,
\* right after the first such task, the script is written once, and every
\* reference to the legacy label is relabelled.
C30_StartRules ==
  [][\A rule \in ScriptRules :
       StartRuleStep(rule) =>
         IF Referencing(debugContext.tasks, StartRules[rule].legacy) = {}
           THEN StartRuleIdle(rule, debugContext, debugContext')
           ELSE /\ StartRuleInserts(rule, debugContext, debugContext')
                /\ StartRuleRelabels(rule, debugContext, debugContext')]_vars

\* C30 without the relabelling: the script and the inserted task
C30_ScriptAndTaskIffReferenced ==
  [][\A rule \in ScriptRules :
       StartRuleStep(rule) =>
         IF Referencing(debugContext.tasks, StartRules[rule].legacy) = {}
           THEN StartRuleIdle(rule, debugContext, debugContext')
           ELSE StartRuleInserts(rule, debugContext, debugContext')]_vars
\* a dependsOn with the legacy label twice keeps the second one
C30_SecondReferenceKept ==
  /\ phase = "debug"
  /\ debugStep > StepBefore("migrateFrontendStart")
  /\ Referencing(debugContext.tasks, frontendStartLabel) # {}

\* C30 on the lists whose dependsOn name the legacy label at most once
ReferencedOnce(taskList, v) ==
  \A i \in DOMAIN taskList :
    taskList[i].dependsOn.kind = "array" =>
      Len(taskList[i].dependsOn.items) - Len(Without(taskList[i].dependsOn.items, v)) <= 1
C30_RelabelsSingleReferences ==
  [][\A rule \in ScriptRules :
       (/\ StartRuleStep(rule)
        /\ Referencing(debugContext.tasks, StartRules[rule].legacy) # {}
        /\ ReferencedOnce(debugContext.tasks, StartRules[rule].legacy)) =>
         StartRuleRelabels(rule, debugContext, debugContext')]_vars

\* the step of migrateTransparentNpmInstall
NpmInstallStep ==
  /\ phase = "debug"
  /\ debugStep = StepBefore("migrateTransparentNpmInstall")
  /\ debugStep' = debugStep + 1
IsNpmInstall(task) == IsTeamsfx(task, TaskCommand.npmInstall)
IsNotNpmInstall(task) == ~IsNpmInstall(task)
\* the project objects with a string cwd of the npm-install tasks, in
\* document order
RECURSIVE StringCwdProjects(_)
StringCwdProjects(taskList) ==
  IF taskList = << >> THEN << >>
  ELSE (IF IsNpmInstall(Head(taskList))
          THEN SelectSeq(Head(taskList).args.projects, HasStringCwd)
          ELSE << >>) \o StringCwdProjects(Tail(taskList))
\* no npm-install task is left and the other tasks are there in their order,
\* the same but for their dependsOn
NpmInstallRemoved(before, after) ==
  LET kept == SelectSeq(before.tasks, IsNotNpmInstall) IN
  /\ \A i \in DOMAIN after.tasks : ~IsNpmInstall(after.tasks[i])
  /\ Len(after.tasks) = Len(kept)
  /\ \A i \in DOMAIN kept :
       [ after.tasks[i] EXCEPT !.dependsOn = NoDependsOn ]
         = [ kept[i] EXCEPT !.dependsOn = NoDependsOn ]
\* no dependsOn refers to the label of a task that was removed
NpmInstallUnreferenced(before, after) ==
  \A i \in DOMAIN after.tasks, k \in DOMAIN before.tasks :
    IsNpmInstall(before.tasks[k]) =>
      ~References(after.tasks[i].dependsOn, before.tasks[k].label)
\* npmCommands has gained one entry for each project object with a string
\* cwd, in document order, with args install and the project's npmInstallArgs
NpmCommandsGained(before, after) ==
  LET projects == StringCwdProjects(before.tasks)
      had == Len(before.appYmlConfig.deploy.npmCommands)
      has == after.appYmlConfig.deploy.npmCommands
  IN  /\ Len(has) = had + Len(projects)
      /\ SubSeq(has, 1, had) = before.appYmlConfig.deploy.npmCommands
      /\ \A k \in DOMAIN projects :
           has[had + k].args = << "install" >> \o projects[k].npmInstallArgs.words

\* C33: after migrateTransparentNpmInstall no teamsfx npm-install task is
\* left, the other tasks keep their order, no dependsOn refers to the label of
\* a removed task, and deploy.npmCommands has gained exactly one entry for
\* each project object with a string cwd, in document order, whose args are
\* install followed by the npmInstallArgs of the project.
C33_NpmInstall ==
  [][NpmInstallStep =>
       /\ NpmInstallRemoved(debugContext, debugContext')
       /\ NpmInstallUnreferenced(debugContext, debugContext')
       /\ NpmCommandsGained(debugContext, debugContext')]_vars
\* C33 without the references: the tasks removed and the entries gained
C33_RemovedAndGained ==
  [][NpmInstallStep =>
       /\ NpmInstallRemoved(debugContext, debugContext')
       /\ NpmCommandsGained(debugContext, debugContext')]_vars
\* C33 on the lists whose dependsOn name the label of an npm-install task at
\* most once
C33_SingleReferencesRemoved ==
  [][(/\ NpmInstallStep
      /\ \A k \in DOMAIN debugContext.tasks :
           IsNpmInstall(debugContext.tasks[k]) =>
             ReferencedOnce(debugContext.tasks, debugContext.tasks[k].label))
       => NpmInstallUnreferenced(debugContext, debugContext')]_vars
\* a dependsOn that named the label of a removed task twice still names it
C33_ReferenceLeft ==
  /\ phase = "debug"
  /\ debugStep = StepBefore("migrateTransparentNpmInstall") + 1
  /\ \E i \in DOMAIN debugContext.tasks :
       References(debugContext.tasks[i].dependsOn, npmInstallLabel)
  /\ \E k \in DOMAIN debugInitial.tasks : debugInitial.tasks[k].label = npmInstallLabel
  /\ Len(debugContext.appYmlConfig.deploy.npmCommands) = 2

\* ---------------------------------------------------------------------
\* The scan loops of the sub-migrations, one iteration at a time.

\* one iteration of the loop of a sub-migration at index
Iteration(rule, context, environment, index) ==
  CASE rule = "migrateTransparentPrerequisite" ->
         migrateTransparentPrerequisiteAt(context, index)
    [] rule = "migrateTransparentLocalTunnel" ->
         migrateTransparentLocalTunnelAt(context, index)
    [] rule = "migrateNgrokStartTask" -> migrateNgrokStartTaskAt(context, index)
    [] rule = "migrateNgrokStartCommand" -> migrateNgrokStartCommandAt(context, index)
    [] rule = "migrateTransparentNpmInstall" ->
         migrateTransparentNpmInstallAt(context, index)
    [] rule = "migrateBackendExtensionsInstall" ->
         migrateBackendExtensionsInstallAt(context, index)
    [] rule \in { "migrateSetUpTab", "migrateSetUpBot", "migrateSetUpSSO",
                  "migratePrepareManifest" } ->
         migrateSetUpAt(rule, context, environment, index)
    [] rule \in DOMAIN StartRules -> migrateStartAt(rule, context, index)
    [] rule = "migrateValidateDependencies" ->
         migrateValidateDependenciesAt(context, index)
    [] rule = "migratePreDebugCheck" -> migratePreDebugCheckAt(context, index)
    [] rule = "migrateValidateLocalPrerequisites" ->
         migrateValidateLocalPrerequisitesAt(context, index)
\* the code of a sub-migration after its loop
AfterLoop(rule, context) ==
  IF rule = "migrateNgrokStartTask" THEN migrateNgrokStartTaskAfterLoop(context)
  ELSE context
\* the sub-migration as a whole
SubMigration(rule, context, environment) ==
  CASE rule = "migrateTransparentPrerequisite" -> migrateTransparentPrerequisite(context)
    [] rule = "migrateTransparentLocalTunnel" -> migrateTransparentLocalTunnel(context)
    [] rule = "migrateNgrokStartTask" -> migrateNgrokStartTask(context)
    [] rule = "migrateNgrokStartCommand" -> migrateNgrokStartCommand(context)
    [] rule = "migrateTransparentNpmInstall" -> migrateTransparentNpmInstall(context)
    [] rule = "migrateBackendExtensionsInstall" -> migrateBackendExtensionsInstall(context)
    [] rule = "migrateSetUpTab" -> migrateSetUpTab(context)
    [] rule = "migrateSetUpBot" -> migrateSetUpBot(context, environment)
    [] rule = "migrateSetUpSSO" -> migrateSetUpSSO(context, environment)
    [] rule = "migratePrepareManifest" -> migratePrepareManifest(context)
    [] rule \in DOMAIN StartRules -> migrateStartFrom(rule, context, 1)
    [] rule = "migrateValidateDependencies" -> migrateValidateDependencies(context)
    [] rule = "migratePreDebugCheck" -> migratePreDebugCheck(context)
    [] rule = "migrateValidateLocalPrerequisites" ->
         migrateValidateLocalPrerequisites(context)

\* the task lists a loop is run on: the tasks of the pool, set-up and
\* npm-install tasks whose label is not a string, and a second set-up task
MaxLoopTasks == 2
LoopTaskPool ==
  TaskPool \o
  << Task(noStringLabel, "teamsfx", TaskCommand.setUpTab, NoDependsOn, NoArgs),
     Task("Set up tab again", "teamsfx", TaskCommand.setUpTab, NoDependsOn, NoArgs),
     Task(noStringLabel, "teamsfx", TaskCommand.npmInstall, NoDependsOn, NoArgs),
     Task(noStringLabel, "teamsfx", TaskCommand.setUpBot, NoDependsOn, NoArgs) >>
RECURSIVE FromLoopPool(_)
FromLoopPool(indices) ==
  IF indices = {} THEN << >>
  ELSE LET first == CHOOSE i \in indices : \A k \in indices : i <= k
       IN  << LoopTaskPool[first] >> \o FromLoopPool(indices \ { first })
LoopTaskLists ==
  { FromLoopPool(indices) : indices \in SubsetsUpTo(DOMAIN LoopTaskPool, MaxLoopTasks) }
loopEnvironment ==
  [ processEnv |-> [ n \in { botPasswordVariable } |-> << "s" >> ], encryptOk |-> TRUE ]

LoopInit ==
  /\ PipelineIdle
  /\ phase = "loop"
  /\ loopRule \in { debugSubMigrations[k] : k \in DOMAIN debugSubMigrations }
  /\ \E taskList \in LoopTaskLists :
       loopContext = DebugContext(taskList, { "tab", "sso", "function" })
  /\ loopInitial = loopContext
  /\ loopIndex = 1
  /\ loopState = "scanning"
  /\ SettingsIdle /\ StatesIdle /\ LaunchIdle /\ DependsOnIdle /\ DebugIdle
  /\ ScaffoldIdle
LoopFrame ==
  UNCHANGED <<pipelineVars, phase, settingsVars, statesVars, launchVars, dependsOnVars,
              debugVars, scaffoldVars, loopRule, loopInitial>>
\* while (index < context.tasks.length) { ... }: one iteration
LoopIteration ==
  /\ phase = "loop"
  /\ loopState = "scanning"
  /\ loopIndex <= Len(loopContext.tasks)
  /\ LET iteration == Iteration(loopRule, loopContext, loopEnvironment, loopIndex)
     IN  /\ loopContext' = iteration.context
         /\ loopIndex' = iteration.index
         /\ loopState' = IF iteration.break THEN "break" ELSE "scanning"
  /\ LoopFrame
\* the loop is left, by its condition or by break, and the sub-migration ends
LoopExit ==
  /\ phase = "loop"
  /\ \/ loopState = "break"
     \/ loopState = "scanning" /\ loopIndex > Len(loopContext.tasks)
  /\ loopContext' = AfterLoop(loopRule, loopContext)
  /\ loopState' = "done"
  /\ UNCHANGED loopIndex
  /\ LoopFrame
LoopNext == LoopIteration \/ LoopExit
LoopSpec == LoopInit /\ [][LoopNext]_vars

\* tasks.length - index, with the index counted from 1
LoopMeasure(context, index) == Len(context.tasks) - (index - 1)
\* the sub-migration run iteration by iteration gives what it gives as a whole
LoopAgrees ==
  (phase = "loop" /\ loopState = "done") =>
    loopContext = SubMigration(loopRule, loopInitial, loopEnvironment)
\* C31: every sub-migration terminates: tasks.length - index is never
\* negative while the loop runs, and in each iteration the loop breaks or
\* tasks.length - index gets smaller, also when a task is removed and the two
\* helper tasks are put in and when a task without a string label is skipped.
C31_LoopsTerminate ==
  /\ [](phase = "loop" => LoopMeasure(loopContext, loopIndex) >= 0)
  /\ [][(phase = "loop" /\ loopState = "scanning" /\ loopState' # "done") =>
          \/ loopState' = "break"
          \/ LoopMeasure(loopContext', loopIndex') < LoopMeasure(loopContext, loopIndex)]_vars
\* C31 witness: migrateSetUpTab has ended on a list with a task without a
\* string label, which it skipped, and a task it replaced by the two helper
\* tasks
C31_Witness ==
  /\ phase = "loop"
  /\ loopRule = "migrateSetUpTab"
  /\ loopState = "done"
  /\ Len(loopInitial.tasks) = 2
  /\ Len(loopContext.tasks) = 3
  /\ \E i \in DOMAIN loopContext.tasks :
       /\ IsTeamsfx(loopContext.tasks[i], TaskCommand.setUpTab)
       /\ ~IsStringLabel(loopContext.tasks[i].label)
  /\ \E i \in DOMAIN loopContext.tasks : loopContext.tasks[i].madeBy = "createResourcesTask"

\* deploy.tab, deploy.bot and deploy.sso of a context
DeployFlags(context) ==
  << context.appYmlConfig.deploy.tab, context.appYmlConfig.deploy.bot,
     context.appYmlConfig.deploy.sso >>
HasShellTask(context, marker) ==
  \E i \in DOMAIN context.tasks : IsShell(context.tasks[i], marker)
BeforePreDebugCheck ==
  /\ phase = "debug"
  /\ debugStep = StepBefore("migratePreDebugCheck")
\* C32: migratePreDebugCheck writes deploy.tab, deploy.bot and deploy.sso only
\* if a shell task with the validate-local-prerequisites marker is in the list
\* when it runs; run after migrateValidateLocalPrerequisites it writes none of
\* the three, so that the two orders of the two sub-migrations give
\* different configurations on a list with both tasks, unless the set-up
\* sub-migrations have written the same three values already.
C32_DeployFlagsDependOnOrder ==
  BeforePreDebugCheck =>
    LET checked == migratePreDebugCheck(debugContext)
        validated == migrateValidateLocalPrerequisites(debugContext)
        checkedFirst == migrateValidateLocalPrerequisites(checked)
        validatedFirst == migratePreDebugCheck(validated)
    IN  /\ DeployFlags(checked) # DeployFlags(debugContext)
             => HasShellTask(debugContext, validateLocalPrerequisitesMarker)
        /\ ~HasShellTask(validated, validateLocalPrerequisitesMarker)
        /\ DeployFlags(validatedFirst) = DeployFlags(debugContext)
        /\ (/\ HasShellTask(debugContext, preDebugCheckMarker)
            /\ HasShellTask(debugContext, validateLocalPrerequisitesMarker)
            /\ DeployFlags(checked) # DeployFlags(debugContext))
             => /\ DeployFlags(checkedFirst) # DeployFlags(validatedFirst)
                /\ checkedFirst.appYmlConfig # validatedFirst.appYmlConfig
\* C32 witness: migratePreDebugCheck has run on a list with both tasks and
\* has written deploy.tab, which it does not write in the other order
C32_Witness ==
  /\ phase = "debug"
  /\ debugStep = StepBefore("migratePreDebugCheck") + 1
  /\ HasShellTask(debugContext, validateLocalPrerequisitesMarker)
  /\ debugContext.appYmlConfig.deploy.tab # ""
  /\ \E i \in DOMAIN debugContext.tasks :
       "migratePreDebugCheck" \in debugContext.tasks[i].matchedBy
  /\ migratePreDebugCheck(migrateValidateLocalPrerequisites(debugInitial))
       .appYmlConfig.deploy.tab = ""

\* the sub-migrations that rewrite a task where it is
InPlaceRules ==
  { "migrateValidateDependencies", "migrateValidateLocalPrerequisites",
    "migrateNgrokStartCommand", "migrateTransparentPrerequisite",
    "migrateTransparentLocalTunnel" }
InPlaceStep(rule) ==
  /\ phase = "debug"
  /\ debugStep = StepBefore(rule)
  /\ debugStep' = debugStep + 1
LabelsOf(taskList) == { taskList[i].label : i \in DOMAIN taskList }
\* C34: migrateValidateDependencies, migrateValidateLocalPrerequisites,
\* migrateNgrokStartCommand, migrateTransparentPrerequisite and
\* migrateTransparentLocalTunnel keep the length of the task list and the
\* label of the task at every index, so that a dependsOn that named a task of
\* the list names a task of the list afterwards.
C34_InPlaceRulesKeepLabels ==
  [][\A rule \in InPlaceRules :
       InPlaceStep(rule) =>
         /\ Len(debugContext'.tasks) = Len(debugContext.tasks)
         /\ \A i \in DOMAIN debugContext.tasks :
              /\ debugContext'.tasks[i].label = debugContext.tasks[i].label
              /\ debugContext'.tasks[i].dependsOn = debugContext.tasks[i].dependsOn
         /\ \A i \in DOMAIN debugContext'.tasks, v \in LabelsOf(debugContext.tasks) :
              References(debugContext'.tasks[i].dependsOn, v)
                => v \in LabelsOf(debugContext'.tasks)]_vars
\* C34 witness: migrateValidateDependencies has rewritten a task that a
\* dependsOn names, and the task has its label
C34_Witness ==
  /\ phase = "debug"
  /\ debugStep = StepBefore("migrateValidateDependencies") + 1
  /\ \E i \in DOMAIN debugContext.tasks, k \in DOMAIN debugContext.tasks :
       /\ debugContext.tasks[i].label = validateDependenciesLabel
       /\ IsTeamsfx(debugContext.tasks[i], TaskCommand.checkPrerequisites)
       /\ References(debugContext.tasks[k].dependsOn, validateDependenciesLabel)

\* the debug sub-pipeline on lists of check-prerequisites tasks: the
\* prerequisites of the first are any names in any order, a second task has
\* one of a few arrays
MaxPrerequisites == 3
PrerequisiteNames ==
  { Prerequisite.nodejs, Prerequisite.m365Account, Prerequisite.portOccupancy,
    Prerequisite.func, Prerequisite.devCert, Prerequisite.dotnet, "ngrok" }
PrerequisiteTask(lbl, prerequisites) ==
  Task(lbl, "teamsfx", TaskCommand.checkPrerequisites, NoDependsOn,
       [ NoArgs EXCEPT !.prerequisites = prerequisites ])
PrerequisiteTaskLists ==
  LET firsts == { PrerequisiteTask("Validate & install prerequisites", prerequisites) :
                    prerequisites \in { NoPrerequisites } \cup
                      { PrerequisiteArray(items) :
                          items \in SeqsUpTo(PrerequisiteNames, MaxPrerequisites) } }
      seconds == { PrerequisiteTask("Validate prerequisites", PrerequisiteArray(items)) :
                     items \in { << >>, << Prerequisite.nodejs >>,
                                 << Prerequisite.dotnet, Prerequisite.nodejs >> } }
  IN  { << first >> : first \in firsts }
        \cup { << first, second >> : first \in firsts, second \in seconds }
PrerequisiteInit ==
  /\ PipelineIdle
  /\ phase = "debug"
  /\ \E taskList \in PrerequisiteTaskLists :
       debugContext = DebugContext(taskList, { "tab" })
  /\ debugInitial = debugContext
  /\ debugStep = 0
  /\ debugEnvironment = [ processEnv |-> [ n \in { botPasswordVariable } |-> << "s" >> ],
                          encryptOk |-> TRUE ]
  /\ SettingsIdle /\ StatesIdle /\ LaunchIdle /\ DependsOnIdle
  /\ LoopIdle /\ ScaffoldIdle
PrerequisiteSpec == PrerequisiteInit /\ [][DebugNext]_vars

PrerequisiteStep ==
  /\ phase = "debug"
  /\ debugStep = StepBefore("migrateTransparentPrerequisite")
  /\ debugStep' = debugStep + 1
IsCheckPrerequisites(task) ==
  /\ IsTeamsfx(task, TaskCommand.checkPrerequisites)
  /\ task.args.prerequisites.kind = "array"
ToolsOf(task) ==
  { task.args.prerequisites.items[i] : i \in DOMAIN task.args.prerequisites.items }
    \cap ToolPrerequisites
\* the array of each task holds the nodejs, m365Account and portOccupancy
\* entries it held, in their order, and nothing else
PrerequisitesFiltered(before, after) ==
  /\ Len(after.tasks) = Len(before.tasks)
  /\ \A i \in DOMAIN before.tasks :
       IsCheckPrerequisites(before.tasks[i]) =>
         after.tasks[i].args.prerequisites =
           PrerequisiteArray(SelectSeq(before.tasks[i].args.prerequisites.items,
                                       IsKeptPrerequisite))
\* the func, devCert and dotnet entries of every task are in deploy.tools
ToolsRecorded(before, after) ==
  \A i \in DOMAIN before.tasks :
    IsCheckPrerequisites(before.tasks[i]) =>
      ToolsOf(before.tasks[i]) \subseteq after.appYmlConfig.deploy.tools
\* deploy is as it was when no task holds func, devCert or dotnet
ToolsUntouched(before, after) ==
  (\A i \in DOMAIN before.tasks :
     IsCheckPrerequisites(before.tasks[i]) => ToolsOf(before.tasks[i]) = {})
    => after.appYmlConfig = before.appYmlConfig

\* C37: after migrateTransparentPrerequisite the prerequisites array of every
\* teamsfx check-prerequisites task holds exactly the nodejs, m365Account and
\* portOccupancy entries of the original in their original order; the func,
\* devCert and dotnet entries are recorded in deploy.tools, and deploy.tools
\* is untouched when none of the three occurs.
C37_Prerequisites ==
  [][PrerequisiteStep =>
       /\ PrerequisitesFiltered(debugContext, debugContext')
       /\ ToolsRecorded(debugContext, debugContext')
       /\ ToolsUntouched(debugContext, debugContext')]_vars
\* C37 without the tools of the earlier tasks: the arrays, deploy.tools
\* untouched, and the tools of the last task that has some recorded
C37_ArraysFiltered ==
  [][PrerequisiteStep =>
       /\ PrerequisitesFiltered(debugContext, debugContext')
       /\ ToolsUntouched(debugContext, debugContext')
       /\ \A i \in DOMAIN debugContext.tasks :
            (/\ IsCheckPrerequisites(debugContext.tasks[i])
             /\ ToolsOf(debugContext.tasks[i]) # {}
             /\ \A k \in (i + 1)..Len(debugContext.tasks) :
                  IsCheckPrerequisites(debugContext.tasks[k]) =>
                    ToolsOf(debugContext.tasks[k]) = {})
              => debugContext'.appYmlConfig.deploy.tools = ToolsOf(debugContext.tasks[i])]_vars
\* a tool of the first task is not in deploy.tools after the sub-migration
C37_ToolOfFirstTaskLost ==
  /\ phase = "debug"
  /\ debugStep = StepBefore("migrateTransparentPrerequisite") + 1
  /\ Len(debugInitial.tasks) = 2
  /\ Prerequisite.func \in ToolsOf(debugInitial.tasks[1])
  /\ debugContext.appYmlConfig.deploy.tools = { Prerequisite.dotnet }

\* C35: after any sequence of the start sub-migrations (frontend, auth, bot,
\* backend) deploy.npmCommands holds at most one entry with the args
\* "install -D @microsoft/teamsfx-run-utils@alpha".
RunUtilsInstalls(context) ==
  Cardinality({ i \in DOMAIN context.appYmlConfig.deploy.npmCommands :
                  context.appYmlConfig.deploy.npmCommands[i].args = runUtilsArgs })
C35_OneRunUtilsInstall ==
  phase = "debug" =>
    /\ RunUtilsInstalls(debugContext) <= 1
    /\ debugStep \in { 0, Len(debugSubMigrations) } =>
         \A first \in DOMAIN StartRules, second \in DOMAIN StartRules :
           RunUtilsInstalls(migrateStartFrom(second,
                              migrateStartFrom(first, debugContext, 1), 1)) <= 1
\* C35 witness: two of the sub-migrations have written their scripts and the
\* entry is there once
C35_Witness ==
  /\ phase = "debug"
  /\ Len(debugContext.migrationContext.scripts) >= 2
  /\ RunUtilsInstalls(debugContext) = 1

\* ---------------------------------------------------------------------
\* OfficeAddinGenerator.doScaffolding and the working directory of the
\* process. A call runs from one await to the next without interruption;
\* at an await another call of the same process may run.

Calls == { "first", "second" }
startDirectories == { "/home", "/work" }
addinRoots == [ first |-> "/projects/a", second |-> "/projects/b" ]

\* what a call is given: a project from a template (with or without a project
\* link for the capability) or from a folder (with an xml or a json
\* manifest), and whether destinationPath is a directory
ScaffoldInputs ==
  { [ fromFolder |-> FALSE, projectLink |-> TRUE, xmlManifest |-> FALSE ],
    [ fromFolder |-> FALSE, projectLink |-> FALSE, xmlManifest |-> FALSE ],
    [ fromFolder |-> TRUE, projectLink |-> FALSE, xmlManifest |-> TRUE ],
    [ fromFolder |-> TRUE, projectLink |-> FALSE, xmlManifest |-> FALSE ] }

\* the awaits of the try block, in the order the call reaches them
Awaits(inputs) ==
  IF ~inputs.fromFolder
    THEN IF inputs.projectLink
           THEN << "downloadProjectTemplateZipFile", "childProcessExec",
                   "modifyManifestFile", "moveManifestLocation" >>
           ELSE << >>
    ELSE << "importProgress.start", "importProgress.next copyFiles",
            "importProgress.next convertProject" >>
         \o (IF inputs.xmlManifest THEN << "convertProject" >> ELSE << >>)
         \o << "getHost", "importProgress.next updateManifest", "updateManifest" >>

\* a call of doScaffolding: where it is, the await it waits for, the
\* directory it read at line 101; the directories when it was called and
\* when it returned, its place among the calls and whether another call ran
\* while it was running
NewCall(inputs, addinRoot, rootExists) ==
  [ state |-> "ready", inputs |-> inputs, addinRoot |-> addinRoot,
    rootExists |-> rootExists, at |-> 0, workingDir |-> "", cwdAtCall |-> "",
    cwdAtReturn |-> "", order |-> 0, overlapped |-> FALSE ]
Running(call) == call.state \in { "awaiting", "ending", "failing" }
HasReturned(call) == call.state \in { "ok", "err" }
Started(call) == call.state # "ready"

\* the catch block without its process.chdir
catchBlockKeepsDirectory(call, current) == current
\* process.chdir(workingDir) at the end of the try block, and in the catch
\* block: the directory of the process afterwards
endOfTry(call, current) == call.workingDir
catchBlock(call, current) == call.workingDir

ScaffoldInit(mode) ==
  /\ PipelineIdle
  /\ phase = mode
  /\ cwd \in startDirectories
  /\ scaffolding \in
       [ Calls -> { NewCall(inputs, "", rootExists) :
                      inputs \in ScaffoldInputs, rootExists \in BOOLEAN } ]
  /\ SettingsIdle /\ StatesIdle /\ LaunchIdle /\ DependsOnIdle /\ DebugIdle /\ LoopIdle

ScaffoldFrame ==
  UNCHANGED <<pipelineVars, phase, settingsVars, statesVars, launchVars, dependsOnVars,
              debugVars, loopVars>>

\* calls that are running at the same time get to know of it
Overlap(callRecords) ==
  [ d \in Calls |->
      IF \E e \in Calls \ { d } : Running(callRecords[d]) /\ Running(callRecords[e])
        THEN [ callRecords[d] EXCEPT !.overlapped = TRUE ]
        ELSE callRecords[d] ]

\* lines 89-107 and the try block up to its first await; throws says whether
\* that part of the try block throws
DoScaffolding(c) ==
  /\ phase \in { "sequential", "interleaved" }
  /\ scaffolding[c].state = "ready"
  /\ phase = "sequential" => \A d \in Calls : ~Running(scaffolding[d])
  /\ \E throws \in BOOLEAN :
       LET call == [ scaffolding[c] EXCEPT
                       !.workingDir = cwd, !.cwdAtCall = cwd,
                       !.addinRoot = addinRoots[c],
                       !.order = 1 + Cardinality({ d \in Calls : Started(scaffolding[d]) }) ]
       IN  IF ~call.rootExists
             THEN \* process.chdir(addinRoot) throws before the try block
                  /\ cwd' = cwd
                  /\ scaffolding' = [ scaffolding EXCEPT ![c] =
                                        [ call EXCEPT !.state = "rejected" ] ]
           ELSE IF throws
             THEN /\ cwd' = catchBlock(call, call.addinRoot)
                  /\ scaffolding' = Overlap([ scaffolding EXCEPT ![c] =
                                        [ call EXCEPT !.state = "failing" ] ])
           ELSE IF Awaits(call.inputs) = << >>
             THEN /\ cwd' = endOfTry(call, call.addinRoot)
                  /\ scaffolding' = Overlap([ scaffolding EXCEPT ![c] =
                                        [ call EXCEPT !.state = "ending" ] ])
           ELSE /\ cwd' = call.addinRoot
                /\ scaffolding' = Overlap([ scaffolding EXCEPT ![c] =
                                      [ call EXCEPT !.state = "awaiting", !.at = 1 ] ])
  /\ ScaffoldFrame

\* the awaited promise resolves: on to the next await, or to line 165
AwaitResolves(c) ==
  /\ scaffolding[c].state = "awaiting"
  /\ IF scaffolding[c].at < Len(Awaits(scaffolding[c].inputs))
       THEN /\ scaffolding' = [ scaffolding EXCEPT ![c].at = @ + 1 ]
            /\ cwd' = cwd
       ELSE /\ scaffolding' = [ scaffolding EXCEPT ![c].state = "ending" ]
            /\ cwd' = endOfTry(scaffolding[c], cwd)
  /\ ScaffoldFrame

\* the awaited promise rejects, or the code after it throws: lines 168-170
AwaitRejects(c) ==
  /\ scaffolding[c].state = "awaiting"
  /\ scaffolding' = [ scaffolding EXCEPT ![c].state = "failing" ]
  /\ cwd' = catchBlock(scaffolding[c], cwd)
  /\ ScaffoldFrame

\* importProgress.end(true, true) resolves: return ok(undefined)
EndResolves(c) ==
  /\ scaffolding[c].state = "ending"
  /\ scaffolding' = [ scaffolding EXCEPT ![c].state = "ok", ![c].cwdAtReturn = cwd ]
  /\ cwd' = cwd
  /\ ScaffoldFrame

\* importProgress.end(true, true) rejects inside the try block
EndRejects(c) ==
  /\ scaffolding[c].state = "ending"
  /\ scaffolding' = [ scaffolding EXCEPT ![c].state = "failing" ]
  /\ cwd' = catchBlock(scaffolding[c], cwd)
  /\ ScaffoldFrame

\* importProgress.end(false, true) resolves: return err(...)
FailureEndResolves(c) ==
  /\ scaffolding[c].state = "failing"
  /\ scaffolding' = [ scaffolding EXCEPT ![c].state = "err", ![c].cwdAtReturn = cwd ]
  /\ cwd' = cwd
  /\ ScaffoldFrame

\* importProgress.end(false, true) rejects in the catch block: the call rejects
FailureEndRejects(c) ==
  /\ scaffolding[c].state = "failing"
  /\ scaffolding' = [ scaffolding EXCEPT ![c].state = "rejected" ]
  /\ cwd' = cwd
  /\ ScaffoldFrame

ScaffoldNext ==
  \/ \E c \in Calls : DoScaffolding(c)
  \/ \E c \in Calls : AwaitResolves(c)
  \/ \E c \in Calls : AwaitRejects(c)
  \/ \E c \in Calls : EndResolves(c)
  \/ \E c \in Calls : EndRejects(c)
  \/ \E c \in Calls : FailureEndResolves(c)
  \/ \E c \in Calls : FailureEndRejects(c)
\* the calls of a process one after the other, and with their awaits interleaved
ScaffoldSpec == ScaffoldInit("sequential") /\ [][ScaffoldNext]_vars
InterleavedScaffoldSpec == ScaffoldInit("interleaved") /\ [][ScaffoldNext]_vars

\* C38: whenever doScaffolding returns, with ok or with err, the working
\* directory of the process is the directory that was current when it was
\* called.
C38_WorkingDirectoryRestored ==
  phase = "sequential" =>
    \A c \in Calls :
      HasReturned(scaffolding[c]) =>
        scaffolding[c].cwdAtReturn = scaffolding[c].cwdAtCall
\* C38 witness: a call that returned err after its directory had been changed,
\* and a call after it that returned ok
C38_Witness ==
  /\ phase = "sequential"
  /\ \E c \in Calls, d \in Calls :
       /\ scaffolding[c].state = "err" /\ scaffolding[c].at > 0
       /\ scaffolding[d].state = "ok" /\ scaffolding[d].order = 2
       /\ scaffolding[d].at > 0
       /\ scaffolding[d].cwdAtReturn = scaffolding[d].cwdAtCall

\* C39: when two calls of doScaffolding have run with their awaits
\* interleaved and both have returned, the working directory of the process
\* is the directory that was current before the first call started.
C39_InterleavedCallsRestore ==
  (phase = "interleaved" /\ \A c \in Calls : HasReturned(scaffolding[c])) =>
    \A c \in Calls : scaffolding[c].order = 1 => cwd = scaffolding[c].cwdAtCall
\* C39: the process is left in the directory of the first call's project
C39_LeftInAddinRoot ==
  /\ phase = "interleaved"
  /\ \A c \in Calls : scaffolding[c].state = "ok"
  /\ \E c \in Calls : scaffolding[c].order = 1 /\ cwd = scaffolding[c].addinRoot

====
